---------------------------- MODULE Spec2Model ----------------------------
(***************************************************************************)
(* Article acquisition and ranking pipeline of Lets-stay-updated:          *)
(*   backend/api/routes.py            generate_news (the orchestrator)     *)
(*   backend/services/news_aggregator.py  NewsAggregator (the fetchers)    *)
(*   backend/services/llm_service.py  LLMService (sources, ranking)        *)
(*   backend/models/schemas.py        request and response schemas         *)
(*                                                                         *)
(* Text is a sequence of one-character strings, so that lower(), strip()   *)
(* and the substring test `x in text` are computed, not assumed.  A Python *)
(* dict is a function from its keys; a key that is absent is absent from   *)
(* the DOMAIN.  Time is counted in days.                                   *)
(***************************************************************************)
EXTENDS Integers, Sequences, FiniteSets, TLC

(***************************************************************************)
(* Bounds of the model (not program constants).                            *)
(***************************************************************************)
\* most items one search-API response carries
MaxItems == 2
\* most records one ranking reply of the model carries
MaxReply == 2
\* largest article_count of a request object handed to generate_news
MaxCount == 2
\* most calls of _make_request one client makes
MaxRequests == 2
\* most characters of a text handed to json_repair
MaxText == 5
\* most articles handed to one ranking call
MaxArticles == 21
\* most entries of one RSS feed document
MaxEntries == 2
\* fetches in progress at the same time, keys of the search API, and
\* (topic, source) pairs of one legacy fetch
MaxTasks == 2
MaxKeys == 2
MaxPairs == 2

(***************************************************************************)
(* Program constants.                                                      *)
(***************************************************************************)
\* routes.py:71
max_attempts == 5
\* routes.py:141, news_aggregator.py:299
RecencyDays == 7
\* routes.py:235, the score stored for an article that carries none
DefaultStoredScore == 70
\* llm_service.py:456, 460, 461
FallbackBase == 50
FallbackBonus == 10
FallbackCap == 90
\* llm_service.py:283, 287
PromptLimit == 20
PromptContentLimit == 200
\* llm_service.py:370, 395
SummaryWords == 40
\* schemas.py:10 and schemas.py:33
MinArticleCount == 5
MaxArticleCount == 15
ScoreMin == 1
ScoreMax == 100
\* the day on which the run takes place (datetime.utcnow()), late enough for
\* an article older than the recency window to have a two-digit day
Today == RecencyDays + 3

(***************************************************************************)
(* Python str operations.                                                  *)
(***************************************************************************)
UpperCase ==
    << "A","B","C","D","E","F","G","H","I","J","K","L","M",
       "N","O","P","Q","R","S","T","U","V","W","X","Y","Z" >>

LowerCase ==
    << "a","b","c","d","e","f","g","h","i","j","k","l","m",
       "n","o","p","q","r","s","t","u","v","w","x","y","z" >>

LowerChar(c) ==
    IF \E i \in DOMAIN UpperCase : UpperCase[i] = c
    THEN LowerCase[CHOOSE i \in DOMAIN UpperCase : UpperCase[i] = c]
    ELSE c

\* str.lower()
Lower(s) == [i \in DOMAIN s |-> LowerChar(s[i])]

RECURSIVE LStrip(_)
LStrip(s) == IF s # << >> /\ Head(s) = " " THEN LStrip(Tail(s)) ELSE s

RECURSIVE RStrip(_)
RStrip(s) ==
    IF s # << >> /\ s[Len(s)] = " " THEN RStrip(SubSeq(s, 1, Len(s) - 1)) ELSE s

\* str.strip()
Strip(s) == RStrip(LStrip(s))

\* str.rstrip("Z")
RECURSIVE RStripZ(_)
RStripZ(s) ==
    IF s # << >> /\ s[Len(s)] = "Z" THEN RStripZ(SubSeq(s, 1, Len(s) - 1)) ELSE s

\* needle in hay
Contains(hay, needle) ==
    \E i \in 0 .. (Len(hay) - Len(needle)) :
        SubSeq(hay, i + 1, i + Len(needle)) = needle

\* dict.get(key, default)
Get(d, k, default) == IF k \in DOMAIN d THEN d[k] ELSE default

\* {**a, **b}
Merge(a, b) ==
    [k \in DOMAIN a \cup DOMAIN b |-> IF k \in DOMAIN b THEN b[k] ELSE a[k]]

Max(a, b) == IF a >= b THEN a ELSE b
Min(a, b) == IF a <= b THEN a ELSE b

\* seq[:n]
Take(s, n) == SubSeq(s, 1, Min(Len(s), Max(n, 0)))

Range(s) == {s[i] : i \in DOMAIN s}

(***************************************************************************)
(* Order of characters and of strings (Python compares str by code point). *)
(***************************************************************************)
CodeOrder ==
    << " ","0","1","2","3","4","5","6","7","8","9" >> \o UpperCase \o LowerCase

Code(c) == CHOOSE i \in DOMAIN CodeOrder : CodeOrder[i] = c

RECURSIVE StrLess(_, _)
StrLess(a, b) ==
    IF b = << >> THEN FALSE
    ELSE IF a = << >> THEN TRUE
    ELSE IF Head(a) = Head(b) THEN StrLess(Tail(a), Tail(b))
    ELSE Code(Head(a)) < Code(Head(b))

\* list.sort(key=..., reverse=True) is stable: equal keys keep their order.
\* less[i][j] tells whether the key of s[i] is below the key of s[j].
SortDesc(s, less) ==
    LET Before(i) ==
            {j \in DOMAIN s :
                \/ less[i][j]
                \/ j < i /\ ~less[j][i] /\ ~less[i][j]}
        At(p) == CHOOSE i \in DOMAIN s : Cardinality(Before(i)) + 1 = p
    IN  [p \in DOMAIN s |-> s[At(p)]]

(***************************************************************************)
(* Dates.  An ISO date is written as its day number in two digits, with an *)
(* optional trailing "Z"; anything else does not parse.                    *)
(***************************************************************************)
Digits == << "0","1","2","3","4","5","6","7","8","9" >>

IsDigit(c) == \E i \in DOMAIN Digits : Digits[i] = c

DigitVal(c) == (CHOOSE i \in DOMAIN Digits : Digits[i] = c) - 1

\* whether datetime.fromisoformat(s) returns (it raises ValueError otherwise)
IsoParses(s) == Len(s) = 2 /\ IsDigit(s[1]) /\ IsDigit(s[2])

\* datetime.fromisoformat(s), in days
IsoDay(s) == 10 * DigitVal(s[1]) + DigitVal(s[2])

\* datetime.utcnow().isoformat()
IsoFormat(day) == << Digits[(day \div 10) + 1], Digits[(day % 10) + 1] >>

(***************************************************************************)
(* Texts used by the program and by the inputs of the model.               *)
(***************************************************************************)
S_ai == << "a","i" >>
S_ml == << "m","l" >>
S_artificial_intelligence ==
    << "a","r","t","i","f","i","c","i","a","l"," ",
       "i","n","t","e","l","l","i","g","e","n","c","e" >>
S_machine_learning ==
    << "m","a","c","h","i","n","e"," ","l","e","a","r","n","i","n","g" >>

(***************************************************************************)
(* routes.py: the helpers of generate_news.                                *)
(***************************************************************************)
synonym_map_None(t) == << t >>

\* routes.py:109-112
synonym_map(t) ==
    IF t = S_artificial_intelligence \/ t = S_ai
    THEN << S_artificial_intelligence, S_ai, S_machine_learning, S_ml >>
    ELSE << t >>

\* routes.py:107
combined_text(article) ==
    Lower(Get(article, "title", << >>) \o << " " >> \o Get(article, "content", << >>))

\* routes.py:113-121, one topic of the loop
TopicMatches(article, t) ==
    LET t_lower == Strip(Lower(t))
    IN  /\ t_lower # << >>
        /\ \E k \in DOMAIN synonym_map(t_lower) :
              Contains(combined_text(article), synonym_map(t_lower)[k])

\* routes.py:95-122
is_article_relevant(article, topics) ==
    \/ topics = << >>
    \/ \E i \in DOMAIN topics : TopicMatches(article, topics[i])

\* routes.py:124-141
is_recent_article(article) ==
    LET published == Get(article, "published_at", << >>)
    IN  /\ published # << >>
        /\ IsoParses(RStripZ(published))
        /\ IsoDay(RStripZ(published)) >= Today - RecencyDays

\* routes.py:36-39
transformed_topics(topics) ==
    [i \in DOMAIN topics |->
        IF Strip(Lower(topics[i])) = S_ai THEN S_artificial_intelligence
        ELSE topics[i]]

\* routes.py:180
NormTitle(article) == Lower(Strip(Get(article, "title", << >>)))

(***************************************************************************)
(* news_aggregator.py: the search-API fetcher.                             *)
(* An answer of the search API is [status, items]: status "200", "429",    *)
(* "500" (any other status) or "error" (the request raised).               *)
(***************************************************************************)
\* news_aggregator.py:294
ItemPublishedAt(item) ==
    IF Get(item, "publishedAt", << >>) # << >> THEN item["publishedAt"]
    ELSE IsoFormat(Today)

\* news_aggregator.py:295-298
ItemDay(item) ==
    IF IsoParses(RStripZ(ItemPublishedAt(item)))
    THEN IsoDay(RStripZ(ItemPublishedAt(item)))
    ELSE Today

\* news_aggregator.py:299-300
ItemIsOld(item) == ItemDay(item) < Today - RecencyDays

\* news_aggregator.py:301-311 (metadata, which no step of the model reads, is left out)
ArticleOfItem(item) ==
    [ title |-> Get(item, "title", << >>),
      content |-> IF Get(item, "description", << >>) # << >>
                  THEN item["description"] ELSE Get(item, "content", << >>),
      url |-> Get(item, "url", ""),
      source |-> Get(item, "source", ""),
      published_at |-> ItemPublishedAt(item) ]

\* news_aggregator.py:293-311
RECURSIVE ArticlesOfItems(_)
ArticlesOfItems(items) ==
    IF items = << >> THEN << >>
    ELSE IF ItemIsOld(Head(items)) THEN ArticlesOfItems(Tail(items))
         ELSE << ArticleOfItem(Head(items)) >> \o ArticlesOfItems(Tail(items))

\* news_aggregator.py:266-316: the loop over the keys, from key k on.
\* enc is encountered_rate_limit, tried the number of requests sent.
RECURSIVE KeyLoop(_, _, _, _)
KeyLoop(keys, answers, k, tried) ==
    IF k > Len(keys) THEN [enc |-> TRUE, arts |-> << >>, tried |-> tried]
    ELSE IF answers[k].status \in {"429", "error"}
         THEN KeyLoop(keys, answers, k + 1, tried + 1)
    ELSE IF answers[k].status = "200"
         THEN [enc |-> FALSE, arts |-> ArticlesOfItems(answers[k].items),
               tried |-> tried + 1]
    ELSE [enc |-> FALSE, arts |-> << >>, tried |-> tried + 1]

RECURSIVE DedupByUrlFrom(_, _)
DedupByUrlFrom(arts, seen) ==
    IF arts = << >> THEN << >>
    ELSE LET url == Get(Head(arts), "url", "")
         IN  IF url = "" \/ url \in seen THEN DedupByUrlFrom(Tail(arts), seen)
             ELSE << Head(arts) >> \o DedupByUrlFrom(Tail(arts), seen \cup {url})

DedupByUrl_Off(arts) == arts

\* news_aggregator.py:322-329 and 470-478
DedupByUrl(arts) == DedupByUrlFrom(arts, {})

PublishedLess(a, b) ==
    StrLess(Get(a, "published_at", << >>), Get(b, "published_at", << >>))

\* news_aggregator.py:330, 481
SortByPublishedDesc(arts) ==
    SortDesc(arts, [i \in DOMAIN arts |->
                      [j \in DOMAIN arts |-> PublishedLess(arts[i], arts[j])]])

_fetch_global_articles_NoSkip(rate_limited, keys, answers, count) ==
    LET r == KeyLoop(keys, answers, 1, 0)
        answered == [i \in 1 .. r.tried |-> answers[i].status]
    IN  IF r.enc
        THEN [arts |-> << >>, rate_limited |-> TRUE, tried |-> r.tried,
              answered |-> answered]
        ELSE [arts |-> Take(SortByPublishedDesc(DedupByUrl(r.arts)), count),
              rate_limited |-> FALSE, tried |-> r.tried, answered |-> answered]

\* news_aggregator.py:244-331.  Returns the articles, the flag afterwards, the
\* number of requests sent and what they were answered (a status, or "error"
\* for a request that raised).
_fetch_global_articles(rate_limited, keys, answers, count) ==
    IF rate_limited
    THEN [arts |-> << >>, rate_limited |-> TRUE, tried |-> 0, answered |-> << >>]
    ELSE LET r == KeyLoop(keys, answers, 1, 0)
             answered == [i \in 1 .. r.tried |-> answers[i].status]
         IN  IF r.enc
             THEN [arts |-> << >>, rate_limited |-> TRUE, tried |-> r.tried,
                   answered |-> answered]
             ELSE [arts |-> Take(SortByPublishedDesc(DedupByUrl(r.arts)), count),
                   rate_limited |-> FALSE, tried |-> r.tried,
                   answered |-> answered]

\* news_aggregator.py:460-468: the loop over the topics, from topic t on.
\* answers[t] holds the answers of the keys to the request for topic t.
RECURSIVE GlobalTopics(_, _, _, _, _)
GlobalTopics(rate_limited, keys, answers, count, t) ==
    IF t > Len(answers)
    THEN [arts |-> << >>, rate_limited |-> rate_limited, tried |-> 0,
          answered |-> << >>]
    ELSE LET one == _fetch_global_articles(rate_limited, keys, answers[t], count)
             rest == GlobalTopics(one.rate_limited, keys, answers, count, t + 1)
         IN  [arts |-> one.arts \o rest.arts,
              rate_limited |-> rest.rate_limited,
              tried |-> one.tried + rest.tried,
              answered |-> one.answered \o rest.answered]

\* news_aggregator.py:501-508: the RSS articles are deduplicated on their "link"
RECURSIVE DedupByLinkFrom(_, _)
DedupByLinkFrom(arts, seen) ==
    IF arts = << >> THEN << >>
    ELSE LET url == Get(Head(arts), "link", "")
         IN  IF url = "" \/ url \in seen THEN DedupByLinkFrom(Tail(arts), seen)
             ELSE << Head(arts) >> \o DedupByLinkFrom(Tail(arts), seen \cup {url})

\* news_aggregator.py:489-515; rss is what _fetch_rss_articles returned
RssFallback(rss, count) ==
    Take(SortByPublishedDesc(DedupByLinkFrom(rss, {})), Max(1, count * 2))

\* news_aggregator.py:456-517, mode "global" (the default of the parameter, which
\* a call without a mode argument gets: news_aggregator.py:425, 451).
fetch_articles(rate_limited, keys, answers, rss, count) ==
    LET g == GlobalTopics(rate_limited, keys, answers, count, 1)
        unique_articles == SortByPublishedDesc(DedupByUrl(g.arts))
    IN  [arts |-> IF unique_articles = << >> THEN RssFallback(rss, count)
                  ELSE Take(unique_articles, Max(1, count * 2)),
         rate_limited |-> g.rate_limited,
         tried |-> g.tried,
         answered |-> g.answered]

(***************************************************************************)
(* llm_config.py and llm_service.py: configuration and ranked models.      *)
(* The environment is [LLM_PROVIDER, LLM_MODEL, GROQ_API_KEY,              *)
(* OPENAI_API_KEY]; the two keys are TRUE when set.                        *)
(***************************************************************************)
\* llm_config.py:23-81, the models each provider knows
ProviderModels(provider) ==
    CASE provider = "groq" ->
            {"llama-3.1-70b-versatile", "llama-3.1-8b-instant", "mixtral-8x7b-32768"}
      [] provider = "openai" -> {"gpt-4o-mini", "gpt-4o"}
      [] provider = "anthropic" -> {"claude-3-haiku-20240307"}
      [] OTHER -> {}

\* llm_config.py:133, model.startswith("gpt")
StartsWithGpt(model) == model \in {"gpt-4o-mini", "gpt-4o"}

\* llm_config.py:83-111; "none" stands for the ValueError
get_best_free_config(env) ==
    IF env.GROQ_API_KEY
    THEN [provider |-> "groq", model |-> "llama-3.1-70b-versatile", api_key |-> TRUE]
    ELSE IF env.OPENAI_API_KEY
    THEN [provider |-> "openai", model |-> "gpt-4o-mini", api_key |-> TRUE]
    ELSE [provider |-> "none", model |-> "", api_key |-> FALSE]

\* llm_config.py:113-142 and llm_service.py:45-52 (config = None is provider "none")
get_config_from_env(env) ==
    IF env.LLM_PROVIDER = "groq" /\ env.GROQ_API_KEY
    THEN [provider |-> "groq", model |-> env.LLM_MODEL, api_key |-> TRUE]
    ELSE IF env.LLM_PROVIDER = "openai" /\ env.OPENAI_API_KEY
    THEN [provider |-> "openai",
          model |-> IF StartsWithGpt(env.LLM_MODEL) THEN env.LLM_MODEL ELSE "gpt-4o-mini",
          api_key |-> TRUE]
    ELSE get_best_free_config(env)

\* llm_service.py:62-66
preferred_order ==
    << "llama3-70b-8192", "llama-3.1-8b-instant", "mixtral-8x7b-32768" >>

\* llm_service.py:54-77
models_ranked(cfg) ==
    IF cfg.provider = "none" THEN << >>
    ELSE LET models_info == ProviderModels(cfg.provider)
             available_models == SelectSeq(preferred_order, LAMBDA m : m \in models_info)
         IN  IF cfg.model # "" /\ cfg.model \notin Range(available_models)
                /\ cfg.model \in models_info
             THEN << cfg.model >> \o available_models
             ELSE available_models

\* llm_service.py:111, 166, 250, 368
Configured(cfg) == cfg.provider # "none" /\ cfg.api_key

\* llm_service.py:116, the models one request goes through
RequestModels(cfg) ==
    IF models_ranked(cfg) # << >> THEN models_ranked(cfg) ELSE << cfg.model >>

(***************************************************************************)
(* llm_service.py: source selection.                                       *)
(***************************************************************************)
N_Reuters == << "R","e","u","t","e","r","s" >>
N_Associated_Press ==
    << "A","s","s","o","c","i","a","t","e","d"," ","P","r","e","s","s" >>
N_BBC_News == << "B","B","C"," ","N","e","w","s" >>
N_NPR == << "N","P","R" >>
N_The_Guardian == << "T","h","e"," ","G","u","a","r","d","i","a","n" >>
N_Substack == << "S","u","b","s","t","a","c","k" >>
N_Local_News_Network ==
    << "L","o","c","a","l"," ","N","e","w","s"," ","N","e","t","w","o","r","k" >>
N_bbc_news == << "b","b","c"," ","n","e","w","s" >>

\* one source record; reasoning is kept only where it depends on the call
Source(name, type, relevance, credibility) ==
    [name |-> name, type |-> type, relevanceScore |-> relevance,
     credibilityScore |-> credibility]

\* llm_service.py:398-441
StaticSources ==
    << Source(N_Reuters, "news_agency", 95, 98),
       Source(N_Associated_Press, "news_agency", 90, 95),
       Source(N_BBC_News, "broadcaster", 88, 92),
       Source(N_NPR, "broadcaster", 86, 91),
       Source(N_The_Guardian, "newspaper", 84, 89),
       Source(N_Substack, "newsletter_platform", 82, 85) >>

\* llm_service.py:444-450
LocalSource(region) ==
    Merge(Source(N_Local_News_Network, "digital_native", 85, 80),
          [reasoning_region |-> region])

_get_fallback_sources_NeverLocal(topics, region) == StaticSources

_get_fallback_sources_None(topics, region) == << >>

\* llm_service.py:397-452
_get_fallback_sources(topics, region) ==
    IF region # "international" THEN StaticSources \o << LocalSource(region) >>
    ELSE StaticSources

\* llm_service.py:227-231
FilterExcluded(sources, excluded_sources) ==
    SelectSeq(sources,
        LAMBDA src : Lower(Get(src, "name", << >>))
                        \notin {Lower(excluded_sources[i]) : i \in DOMAIN excluded_sources})

\* llm_service.py:210-238, once the request has returned.  A reply is
\* [kind, value]: kind "no_choices" (the response has no choices[0].message.content),
\* "unparseable" (json_repair.loads raises), "list" (the JSON value is not an
\* object) or "object" (value is the decoded dict).
SelectFromReply(reply, topics, region, excluded_sources) ==
    IF reply.kind = "object"
    THEN FilterExcluded(Get(reply.value, "sources", << >>), excluded_sources)
    ELSE _get_fallback_sources(topics, region)

(***************************************************************************)
(* llm_service.py: ranking.                                                *)
(***************************************************************************)
FallbackScore_Flat(article, topics) ==
    LET text == Lower(article["title"] \o << " " >> \o article["content"])
    IN  IF \E i \in DOMAIN topics : Contains(text, Lower(topics[i]))
        THEN FallbackBase + FallbackBonus ELSE FallbackBase

\* llm_service.py:456-461
FallbackScore(article, topics) ==
    LET text == Lower(article["title"] \o << " " >> \o article["content"])
        hits == Cardinality({i \in DOMAIN topics : Contains(text, Lower(topics[i]))})
    IN  Min(FallbackBase + FallbackBonus * hits, FallbackCap)

ScoreLess(a, b) == Get(a, "ai_score", 0) < Get(b, "ai_score", 0)

\* llm_service.py:343-345 and 463
SortByScoreDesc(arts) ==
    SortDesc(arts, [i \in DOMAIN arts |->
                      [j \in DOMAIN arts |-> ScoreLess(arts[i], arts[j])]])

_fallback_scoring_Unsorted(articles, topics) ==
    [i \in DOMAIN articles |->
        Merge(articles[i], [ai_score |-> FallbackScore(articles[i], topics),
                            reasoning |-> "fallback"])]

\* llm_service.py:454-464
_fallback_scoring(articles, topics) ==
    SortByScoreDesc([i \in DOMAIN articles |->
                        Merge(articles[i],
                              [ai_score |-> FallbackScore(articles[i], topics),
                               reasoning |-> "fallback"])])

\* llm_service.py:333-336, the first article with the title of the record
Original(articles, ranked) ==
    LET hits == {i \in DOMAIN articles :
                    "title" \in DOMAIN articles[i] /\ "title" \in DOMAIN ranked
                    /\ articles[i]["title"] = ranked["title"]}
    IN  IF hits = {} THEN << >>
        ELSE << articles[CHOOSE i \in hits : \A j \in hits : i <= j] >>

\* llm_service.py:330-341
RECURSIVE MergeRanked(_, _)
MergeRanked(articles, ranked_articles) ==
    IF ranked_articles = << >> THEN << >>
    ELSE LET original == Original(articles, Head(ranked_articles))
         IN  (IF original = << >> THEN << >>
              ELSE << Merge(original[1], Head(ranked_articles)) >>)
             \o MergeRanked(articles, Tail(ranked_articles))

RankOnFailure_Unscored(articles, topics) == articles

\* llm_service.py:351-353, what analyze_and_rank_articles returns on any failure
RankOnFailure(articles, topics) == _fallback_scoring(articles, topics)

RankFromReply_Unsorted(reply, articles, topics) ==
    IF reply.kind = "object"
    THEN MergeRanked(articles, Get(reply.value, "articles", << >>))
    ELSE RankOnFailure(articles, topics)

\* llm_service.py:317-353, once the request has returned (reply as above)
RankFromReply(reply, articles, topics) ==
    IF reply.kind = "object"
    THEN SortByScoreDesc(MergeRanked(articles, Get(reply.value, "articles", << >>)))
    ELSE RankOnFailure(articles, topics)

(***************************************************************************)
(* routes.py: the validation of one batch and the stored record.           *)
(***************************************************************************)
\* routes.py:179-194, one article of the batch
Accepts(valid, article, topics) ==
    /\ Get(article, "url", "") # ""
    /\ NormTitle(article) # << >>
    /\ \A i \in DOMAIN valid : NormTitle(valid[i]) # NormTitle(article)
    /\ is_article_relevant(article, topics)
    /\ is_recent_article(article)

\* routes.py:175-194
RECURSIVE ValidateBatch(_, _, _, _)
ValidateBatch(valid, raw, desired_count, topics) ==
    IF raw = << >> \/ Len(valid) >= desired_count THEN valid
    ELSE IF Accepts(valid, Head(raw), topics)
         THEN ValidateBatch(Append(valid, Head(raw)), Tail(raw), desired_count, topics)
         ELSE ValidateBatch(valid, Tail(raw), desired_count, topics)

FetchCount_Triple(attempt_no, desired_count, valid) ==
    Max(1, desired_count * 3)

\* routes.py:160-163
FetchCount(attempt_no, desired_count, valid) ==
    IF attempt_no = 0 THEN Max(1, desired_count * 3)
    ELSE Max(1, (desired_count - Len(valid)) * 2)

\* routes.py:235
StoredScore(article) == Get(article, "ai_score", DefaultStoredScore)

\* routes.py:229-238: the record handed to db.create_news_article (without its
\* metadata, where the summary goes).  Building it raises (KeyError, IndexError)
\* when a key or request.topics[0] is missing.
RecordBuilds(article, topics) ==
    /\ {"title", "content", "url", "source", "published_at"} \subseteq DOMAIN article
    /\ topics # << >>

StoredRecord(article, topics) ==
    [ title |-> article["title"],
      content |-> article["content"],
      url |-> article["url"],
      source |-> article["source"],
      topic |-> Get(article, "topic", topics[1]),
      ai_score |-> StoredScore(article),
      published_at |-> article["published_at"] ]

\* schemas.py:26-37, what GenerateNewsResponse(articles=...) accepts
ResponseValidates(stored) ==
    \A i \in DOMAIN stored :
        /\ stored[i]["ai_score"] >= ScoreMin
        /\ stored[i]["ai_score"] <= ScoreMax
        /\ IsoParses(RStripZ(stored[i]["published_at"]))

(***************************************************************************)
(* Inputs of the model.                                                    *)
(***************************************************************************)
T_AI == << "A","I" >>
T_ai_padded == << " ","a","i" >>
T_News == << "N","e","w","s" >>
T_Golf == << "G","o","l","f" >>
T_AI_f == << "A","I"," ","f" >>
T_AI_old == << "A","I"," ","o" >>
T_Other == << "O","t","h","e","r" >>

D_today == IsoFormat(Today)
D_todayZ == IsoFormat(Today) \o << "Z" >>
D_edge == IsoFormat(Today - RecencyDays)
D_old == IsoFormat(Today - RecencyDays - 1)
D_bad == << "x","x" >>

\* What the search API may return: a fresh article, the same title in another
\* spelling under another url, another title under the same url (exactly
\* RecencyDays old, and on the topic by its description only), an article on
\* another topic, one with a date that does not parse, one that is too old.
ApiPool ==
    << [title |-> T_AI, description |-> S_ai, url |-> "u1", source |-> "s1",
        publishedAt |-> D_today],
       [title |-> T_ai_padded, description |-> << >>, url |-> "u2", source |-> "s2",
        publishedAt |-> D_todayZ],
       [title |-> T_News, description |-> S_machine_learning, url |-> "u1",
        source |-> "s1",
        publishedAt |-> D_edge],
       [title |-> T_Golf, description |-> << >>, url |-> "u3", source |-> "s2",
        publishedAt |-> D_today],
       [title |-> T_AI_f, description |-> << >>, url |-> "u4", source |-> "s1",
        publishedAt |-> D_bad],
       [title |-> T_AI_old, description |-> << >>, url |-> "u5", source |-> "s1",
        publishedAt |-> D_old] >>

\* the items of the pool at the places S, in the order of the pool
PoolItems(S) ==
    LET Nth(k) == CHOOSE i \in S : Cardinality({j \in S : j < i}) = k - 1
    IN  [k \in 1 .. Cardinality(S) |-> ApiPool[Nth(k)]]

ItemLists ==
    {PoolItems(S) : S \in {X \in SUBSET DOMAIN ApiPool : Cardinality(X) <= MaxItems}}

\* the answers one key may get to one request
Answers ==
    {[status |-> st, items |-> << >>] : st \in {"429", "500", "error"}}
    \cup {[status |-> "200", items |-> it] : it \in ItemLists}

\* what _fetch_rss_articles may return (news_aggregator.py:784-793)
RssLists ==
    { << >>,
      << [title |-> T_AI, content |-> << >>, url |-> "r1", source |-> "s1",
          published_at |-> D_today] >> }

TL_ai == << S_ai >>
TL_AI_padded == << << "A","I"," " >> >>
TL_none == << >>

Regions == {"international", "us"}

\* request objects handed to generate_news that carry every attribute it
\* reads; article_count is kept small (the handler itself puts no lower limit
\* on it, schemas.py:10 does), so that a run can collect as many as asked for
Requests ==
    {[topics |-> TL_ai, region |-> "international", article_count |-> n,
      excluded_sources |-> << >>] : n \in 1 .. MaxCount}
    \cup
    {[topics |-> t, region |-> "international", article_count |-> 1,
      excluded_sources |-> << >>] : t \in {TL_AI_padded, TL_none}}
    \cup
    {[topics |-> TL_ai, region |-> r, article_count |-> 1,
      excluded_sources |-> e] : r \in Regions, e \in {<< >>, << N_bbc_news >>}}
    \cup
    {[topics |-> TL_ai, region |-> "international", article_count |-> 1,
      excluded_sources |-> << << "B","B","C" >> >>]}

\* process environments: no key, a Groq key with the default model
LLMEnvs ==
    { [LLM_PROVIDER |-> "groq", LLM_MODEL |-> "llama-3.1-70b-versatile",
       GROQ_API_KEY |-> FALSE, OPENAI_API_KEY |-> FALSE],
      [LLM_PROVIDER |-> "groq", LLM_MODEL |-> "llama-3.1-70b-versatile",
       GROQ_API_KEY |-> TRUE, OPENAI_API_KEY |-> FALSE] }

\* what a model may answer instead of 200: a status that is not 200, or the
\* request raises (llm_service.py:138-150)
FailStatuses == {"429", "error"}

\* what the model may answer to the source-selection prompt
SourceReplies ==
    { [kind |-> "no_choices", value |-> << >>],
      [kind |-> "unparseable", value |-> << >>],
      [kind |-> "list", value |-> << >>],
      [kind |-> "object", value |-> [other |-> << >>]],
      [kind |-> "object", value |-> [sources |-> << >>]],
      [kind |-> "object",
       value |-> [sources |-> << Source(N_Reuters, "news_agency", 90, 90),
                                 Source(N_BBC_News, "broadcaster", 80, 80) >>]] }

\* the records the model may put into a ranking reply for the articles sent:
\* a title that was not sent, an echo without score, a score outside 1..100,
\* and a record that also gives a url, a published_at and a content of its own
RankRecords(articles) ==
    LET titles == {articles[i]["title"] : i \in DOMAIN articles}
    IN  {[title |-> T_Other, ai_score |-> 85]}
        \cup {[title |-> t] : t \in titles}
        \cup {[title |-> t, ai_score |-> 101] : t \in titles}
        \cup {[title |-> t, ai_score |-> 85, url |-> "u1", published_at |-> D_old,
               content |-> << >>] : t \in titles}

RECURSIVE SeqsUpTo(_, _)
SeqsUpTo(S, n) ==
    IF n = 0 THEN {<< >>}
    ELSE LET shorter == SeqsUpTo(S, n - 1)
         IN  shorter \cup {Append(q, x) : q \in {r \in shorter : Len(r) = n - 1}, x \in S}

RankReplies(articles) ==
    { [kind |-> "unparseable", value |-> << >>],
      [kind |-> "list", value |-> << >>],
      [kind |-> "object", value |-> [other |-> << >>]] }
    \cup {[kind |-> "object", value |-> [articles |-> q]] :
            q \in SeqsUpTo(RankRecords(articles), MaxReply)}

(***************************************************************************)
(* State.  Two specifications share it.  Spec follows the steps of         *)
(* generate_news for a request object that carries every attribute the     *)
(* handler reads and for an await of fetch_articles that either raises or  *)
(* returns a batch: it is the pipeline the steps make up.  SpecWired, at   *)
(* the end, follows the handler with the request the schema builds and     *)
(* the call as routes.py writes it.                                        *)
(***************************************************************************)
VARIABLES
    request,              \* the request object of the run
    has_excluded,         \* whether it has an excluded_sources attribute
    config,               \* LLMService.config
    newsapi_rate_limited, \* NewsAggregator.newsapi_rate_limited
    pc,                   \* where generate_news stands
    selected_sources,     \* routes.py:41
    attempt,              \* routes.py:144, rounds of the loop gone through (while in the loop)
    valid_articles,       \* routes.py:72
    accepted_in,          \* for each valid article, the round that accepted it (while in the loop)
    llm_tried,            \* models asked by the _make_request in progress or just over
    llm_statuses,         \* what each of them answered
    api_answered,         \* what the search API answered in the last fetch call (while in the loop)
    llm_error,            \* last_error of _make_request (llm_service.py:115)
    llm_exhausted,        \* models that have answered 429 to this client
    llm_requests,         \* calls of _make_request this client has finished
    json_text,            \* the argument of json_repair.loads
    json_result,          \* what it returned or raised
    call,                 \* a helper called on its own: its name and arguments
    returned,             \* what that call returned
    fetchers,             \* the fetches in progress in the process, one per task
    newsapi_source_map,   \* NewsAggregator.newsapi_source_map, names to identifiers
    source_cache_file,    \* the file newsapi_source_map.json
    rank_path,            \* "model" or "heuristic", once ranking has returned
    select_path,          \* "no_config", "model" or "failed", once selection has returned
    ranked_articles,      \* routes.py:201
    stored_articles,      \* routes.py:212, the rows written to the database
    response              \* what the handler answers

vars ==
    << request, has_excluded, config, newsapi_rate_limited, pc,
       selected_sources, attempt, valid_articles, accepted_in, llm_tried,
       llm_statuses, rank_path, select_path,
       ranked_articles, stored_articles, response, api_answered,
       llm_error, llm_exhausted, llm_requests, json_text, json_result,
       call, returned, fetchers, newsapi_source_map, source_cache_file >>

\* the variables of the LLM client on its own and of json_repair on its own
client_vars == << llm_error, llm_exhausted, llm_requests >>

json_vars == << json_text, json_result >>

helper_vars ==
    << call, returned, fetchers, newsapi_source_map, source_cache_file >>

\* news_aggregator.py:104-108 keeps the map of the known outlets; the model
\* holds the discovered names only.  The file does not exist at first.
NoSourceMap == << >>

NoCacheFile == [state |-> "absent", map |-> << >>]

NoCall == [fn |-> "none"]

NoError == [model |-> "", status |-> ""]

NoResult == [kind |-> "none", value |-> << >>]

\* the client and the decoder as the handler's steps leave them
Aside ==
    /\ llm_error = NoError
    /\ llm_exhausted = {}
    /\ llm_requests = 0
    /\ json_text = << >>
    /\ json_result = NoResult
    /\ call = NoCall
    /\ returned = NoCall
    /\ fetchers = << >>
    /\ newsapi_source_map = NoSourceMap
    /\ source_cache_file = NoCacheFile

NoResponse == [status |-> 0, articles |-> << >>, total_count |-> 0]

\* the state of a handler that has not started
Fresh ==
    /\ newsapi_rate_limited = FALSE
    /\ pc = "start"
    /\ selected_sources = << >>
    /\ attempt = 0
    /\ valid_articles = << >>
    /\ accepted_in = << >>
    /\ llm_tried = << >>
    /\ llm_statuses = << >>
    /\ rank_path = "none"
    /\ select_path = "none"
    /\ ranked_articles = << >>
    /\ stored_articles = << >>
    /\ response = NoResponse
    /\ api_answered = << >>
    /\ Aside

Init ==
    /\ request \in Requests
    /\ has_excluded = TRUE
    /\ config \in {get_config_from_env(e) : e \in LLMEnvs}
    /\ Fresh

\* routes.py:256-260 and 48, 197: the handler ends with an error response
Fail(status) ==
    /\ pc' = "done"
    /\ response' = [status |-> status, articles |-> << >>, total_count |-> 0]

LLMIdle == llm_tried' = << >> /\ llm_statuses' = << >>

(***************************************************************************)
(* Step 1, routes.py:36-50 with llm_service.py:156-238.                    *)
(***************************************************************************)
\* routes.py:47-50
SourcesSelected(sources, path) ==
    /\ select_path' = path
    /\ selected_sources' = sources
    /\ IF sources = << >>
       THEN Fail(400)
       ELSE pc' = "fetch" /\ UNCHANGED response

\* routes.py:36-45, llm_service.py:163-170: up to the first request
SelectStart ==
    /\ pc = "start"
    /\ has_excluded
    /\ LLMIdle
    /\ IF ~Configured(config)
       THEN SourcesSelected(
                _get_fallback_sources(transformed_topics(request.topics),
                                      request.region), "no_config")
       ELSE /\ pc' = "select_llm"
            /\ UNCHANGED << selected_sources, select_path, response >>
    /\ UNCHANGED << request, has_excluded, config,
                    newsapi_rate_limited, attempt, valid_articles, accepted_in, rank_path, ranked_articles,
                    stored_articles >>
    /\ UNCHANGED api_answered
    /\ UNCHANGED << client_vars, json_vars, helper_vars >>

NextModel_First == RequestModels(config)[1]

\* llm_service.py:116-152, one model of the loop: the model asked next
NextModel == RequestModels(config)[Len(llm_tried) + 1]

LastModel == Len(llm_tried) + 1 = Len(RequestModels(config))

\* llm_service.py:116-154 for the request of select_news_sources, then
\* llm_service.py:210-238 and routes.py:47-50
SelectAttempt ==
    /\ pc = "select_llm"
    /\ llm_tried' = Append(llm_tried, NextModel)
    /\ \E st \in FailStatuses \cup {"200"} :
          /\ llm_statuses' = Append(llm_statuses, st)
          /\ IF st = "200"
             THEN \E reply \in SourceReplies :
                     SourcesSelected(
                         SelectFromReply(reply, transformed_topics(request.topics),
                                         request.region, request.excluded_sources),
                         IF reply.kind = "object" THEN "model" ELSE "failed")
             ELSE IF LastModel
             THEN SourcesSelected(
                      _get_fallback_sources(transformed_topics(request.topics),
                                            request.region), "failed")
             ELSE UNCHANGED << pc, selected_sources, select_path, response >>
    /\ UNCHANGED << request, has_excluded, config,
                    newsapi_rate_limited, attempt, valid_articles, accepted_in, rank_path, ranked_articles,
                    stored_articles >>
    /\ UNCHANGED api_answered
    /\ UNCHANGED << client_vars, json_vars, helper_vars >>

(***************************************************************************)
(* Step 2, routes.py:144-194 with news_aggregator.py:421-517.              *)
(***************************************************************************)
desired_count == request.article_count

LoopGoesOn_IgnoresCount == attempt < max_attempts

\* routes.py:144-147, the head of the loop
LoopGoesOn == attempt < max_attempts /\ Len(valid_articles) < desired_count

\* news_aggregator.py:110-130, the keys read from the environment
newsapi_keys == << "k1" >>

\* the number of topics a request may have, and the counts a round may ask for
TopicCounts == {Len(r.topics) : r \in Requests}

FetchCounts == 1 .. 3 * MaxCount

\* what one call of fetch_articles may return and leave in newsapi_rate_limited,
\* over the answers of the keys to the requests of the call (one list per
\* topic) and over what _fetch_rss_articles returns
FetchResults ==
    [n \in TopicCounts, rate_limited \in BOOLEAN, count \in FetchCounts |->
        {[arts |-> r.arts, rate_limited |-> r.rate_limited,
          answered |-> r.answered] :
            r \in {fetch_articles(rate_limited, newsapi_keys, answers, rss, count) :
                      answers \in [1 .. n -> [DOMAIN newsapi_keys -> Answers]],
                      rss \in RssLists}}]

\* routes.py:164-172: the await raises, the round is over; no answer of the
\* search API has been processed
FetchRaises ==
    /\ pc = "fetch"
    /\ LoopGoesOn
    /\ LLMIdle
    /\ attempt' = attempt + 1
    /\ UNCHANGED << request, has_excluded, config,
                    newsapi_rate_limited, pc, selected_sources, valid_articles,
                    accepted_in, rank_path, select_path,
                    ranked_articles, stored_articles, response >>
    /\ api_answered' = << >>
    /\ UNCHANGED << client_vars, json_vars, helper_vars >>

FetchReturns_Replaces ==
    /\ pc = "fetch"
    /\ LoopGoesOn
    /\ LLMIdle
    /\ \E r \in FetchResults[Len(transformed_topics(request.topics)),
                             newsapi_rate_limited,
                             FetchCount(attempt, desired_count, valid_articles)] :
          /\ newsapi_rate_limited' = r.rate_limited
          /\ api_answered' = r.answered
          /\ valid_articles' = ValidateBatch(<< >>, r.arts, desired_count,
                                             transformed_topics(request.topics))
    /\ accepted_in' = [i \in DOMAIN valid_articles' |->
                          IF i <= Len(valid_articles) THEN accepted_in[i]
                          ELSE attempt]
    /\ attempt' = attempt + 1
    /\ UNCHANGED << request, has_excluded, config, pc,
                    selected_sources, rank_path, select_path, ranked_articles,
                    stored_articles, response >>
    /\ UNCHANGED << client_vars, json_vars, helper_vars >>

\* routes.py:144-194: the await returns a batch and the batch is validated
FetchReturns ==
    /\ pc = "fetch"
    /\ LoopGoesOn
    /\ LLMIdle
    /\ \E r \in FetchResults[Len(transformed_topics(request.topics)),
                             newsapi_rate_limited,
                             FetchCount(attempt, desired_count, valid_articles)] :
          /\ newsapi_rate_limited' = r.rate_limited
          /\ api_answered' = r.answered
          /\ valid_articles' = ValidateBatch(valid_articles, r.arts, desired_count,
                                             transformed_topics(request.topics))
    /\ accepted_in' = [i \in DOMAIN valid_articles' |->
                          IF i <= Len(valid_articles) THEN accepted_in[i]
                          ELSE attempt]
    /\ attempt' = attempt + 1
    /\ UNCHANGED << request, has_excluded, config, pc,
                    selected_sources, rank_path, select_path, ranked_articles,
                    stored_articles, response >>
    /\ UNCHANGED << client_vars, json_vars, helper_vars >>

(***************************************************************************)
(* Step 3, routes.py:196-209 with llm_service.py:240-353.                  *)
(***************************************************************************)
NoValidArticles_Never(valid) == FALSE

\* routes.py:196
NoValidArticles(valid) == valid = << >>

\* llm_service.py:248-254, the early exits of analyze_and_rank_articles
RanksWithoutModel(cfg, articles, topics) ==
    articles = << >> \/ topics = << >> \/ ~Configured(cfg)

Ranked(articles, path) ==
    /\ ranked_articles' = articles
    /\ rank_path' = path
    /\ pc' = "store"
    /\ UNCHANGED response

\* routes.py:196-209 and llm_service.py:247-254: the loop is over; 404 without
\* valid articles, else analyze_and_rank_articles up to its first request
RankStart ==
    /\ pc = "fetch"
    /\ ~LoopGoesOn
    /\ LLMIdle
    /\ IF NoValidArticles(valid_articles)
       THEN /\ Fail(404)
            /\ UNCHANGED << ranked_articles, rank_path, attempt, accepted_in >>
       ELSE /\ attempt' = 0
            /\ accepted_in' = << >>
            /\ IF RanksWithoutModel(config, valid_articles, request.topics)
               THEN Ranked(_fallback_scoring(valid_articles, request.topics),
                           "heuristic")
               ELSE /\ pc' = "rank_llm"
                    /\ UNCHANGED << ranked_articles, rank_path, response >>
    /\ UNCHANGED << request, has_excluded, config, newsapi_rate_limited,
                    selected_sources, valid_articles, select_path,
                    stored_articles >>
    /\ api_answered' = << >>
    /\ UNCHANGED << client_vars, json_vars, helper_vars >>

\* llm_service.py:116-154 for the request of analyze_and_rank_articles, one
\* model of the loop, then llm_service.py:317-353
RankAttempt ==
    /\ pc = "rank_llm"
    /\ llm_tried' = Append(llm_tried, NextModel)
    /\ \E st \in FailStatuses \cup {"200"} :
          /\ llm_statuses' = Append(llm_statuses, st)
          /\ IF st = "200"
             THEN \E reply \in RankReplies(valid_articles) \cup
                                 {[kind |-> "no_choices", value |-> << >>]} :
                     Ranked(RankFromReply(reply, valid_articles, request.topics),
                            IF reply.kind = "object" THEN "model" ELSE "heuristic")
             ELSE IF LastModel
             THEN Ranked(RankOnFailure(valid_articles, request.topics), "heuristic")
             ELSE UNCHANGED << pc, ranked_articles, rank_path, response >>
    /\ UNCHANGED << request, has_excluded, config,
                    newsapi_rate_limited, selected_sources, attempt,
                    valid_articles, accepted_in,
                    select_path, stored_articles >>
    /\ UNCHANGED api_answered
    /\ UNCHANGED << client_vars, json_vars, helper_vars >>

(***************************************************************************)
(* Step 4 and the response, routes.py:211-254.                             *)
(***************************************************************************)
\* routes.py:214-242: the rows created for the articles of top, those at the
\* places in failed being the ones whose insert raises (the model lets the
\* database refuse none or all)
RECURSIVE StoreFrom(_, _, _, _)
StoreFrom(top, topics, failed, i) ==
    IF i > Len(top) THEN << >>
    ELSE (IF i \in failed \/ ~RecordBuilds(top[i], topics) THEN << >>
          ELSE << StoredRecord(top[i], topics) >>)
         \o StoreFrom(top, topics, failed, i + 1)

top_articles_All == ranked_articles

\* routes.py:213
top_articles == Take(ranked_articles, desired_count)

\* routes.py:211-260: the articles are stored and the response is built
Store ==
    /\ pc = "store"
    /\ LLMIdle
    /\ \E failed \in {{}, DOMAIN top_articles} :
          stored_articles' = StoreFrom(top_articles, request.topics, failed, 1)
    /\ IF ResponseValidates(stored_articles')
       THEN /\ pc' = "done"
            /\ response' = [status |-> 200, articles |-> stored_articles',
                            total_count |-> Len(stored_articles')]
       ELSE Fail(500)
    /\ UNCHANGED << request, has_excluded, config,
                    newsapi_rate_limited, selected_sources, attempt,
                    valid_articles, accepted_in,
                    rank_path, select_path, ranked_articles >>
    /\ UNCHANGED api_answered
    /\ UNCHANGED << client_vars, json_vars, helper_vars >>

Next ==
    \/ SelectStart
    \/ SelectAttempt
    \/ FetchRaises
    \/ FetchReturns
    \/ RankStart
    \/ RankAttempt
    \/ Store

Spec == Init /\ [][Next]_vars

(***************************************************************************)
(* The handler as routes.py wires it.  The request is built by             *)
(* GenerateNewsRequest (schemas.py:6-10), which declares region, country,  *)
(* topics and article_count; has_excluded tells apart such a request from  *)
(* an object that also carries excluded_sources.  fetch_articles is called *)
(* with the keywords of routes.py:165-169.                                 *)
(***************************************************************************)
\* schemas.py:6-10
GenerateNewsRequestFields == {"region", "country", "topics", "article_count"}

\* news_aggregator.py:421-428
fetch_articles_parameters ==
    {"topic", "count", "page", "mode", "language", "country", "sources"}

\* routes.py:165-169
fetch_articles_keywords == {"topics", "sources", "count"}

\* Python binds a call when every keyword names a parameter; else TypeError
CallBinds(keywords, parameters) == keywords \subseteq parameters

\* getattr on a model instance: AttributeError for an undeclared field
AttributeMissing(fields, name) == name \notin fields

WiredRequests ==
    {[topics |-> t, region |-> r, article_count |-> n, excluded_sources |-> << >>] :
        t \in {TL_ai, TL_AI_padded}, r \in Regions,
        n \in MinArticleCount .. MaxArticleCount}

InitWired ==
    /\ request \in WiredRequests
    /\ has_excluded \in BOOLEAN
    /\ config \in {get_config_from_env(e) : e \in LLMEnvs}
    /\ Fresh

\* routes.py:41-45 and 256-260: request.excluded_sources raises AttributeError,
\* which the handler turns into a 500
SelectRaises ==
    /\ pc = "start"
    /\ ~has_excluded
    /\ AttributeMissing(GenerateNewsRequestFields, "excluded_sources")
    /\ Fail(500)
    /\ UNCHANGED << request, has_excluded, config, newsapi_rate_limited,
                    selected_sources, attempt, valid_articles, accepted_in,
                    llm_tried, llm_statuses, rank_path, select_path,
                    ranked_articles, stored_articles >>
    /\ UNCHANGED api_answered
    /\ UNCHANGED << client_vars, json_vars, helper_vars >>

\* routes.py:144-194, one round of the loop with the call as written
FetchRound ==
    IF CallBinds(fetch_articles_keywords, fetch_articles_parameters)
    THEN FetchReturns
    ELSE FetchRaises

NextWired ==
    \/ SelectRaises
    \/ SelectStart
    \/ SelectAttempt
    \/ FetchRound
    \/ RankStart

SpecWired == InitWired /\ [][NextWired]_vars

(***************************************************************************)
(* The LLM client on its own: successive calls of _make_request            *)
(* (llm_service.py:99-154) on one LLMService.  The calls of a run follow   *)
(* each other within seconds.                                              *)
(***************************************************************************)
\* what a model may do with one POST: answer 200 with a body that decodes,
\* answer 200 with a body response.json() raises on, answer 429, or not
\* answer (session.post raises)
LLMAnswers == {"200", "200_undecodable", "429", "error"}

\* a handler that takes no step
PipelineIdle ==
    /\ request = [topics |-> << >>, region |-> "international",
                  excluded_sources |-> << >>, article_count |-> 1]
    /\ has_excluded = TRUE
    /\ newsapi_rate_limited = FALSE
    /\ selected_sources = << >>
    /\ attempt = 0
    /\ valid_articles = << >>
    /\ accepted_in = << >>
    /\ rank_path = "none"
    /\ select_path = "none"
    /\ ranked_articles = << >>
    /\ stored_articles = << >>
    /\ response = NoResponse
    /\ api_answered = << >>

pipeline_vars ==
    << request, has_excluded, newsapi_rate_limited, selected_sources, attempt,
       valid_articles, accepted_in, rank_path, select_path, ranked_articles,
       stored_articles, response, api_answered >>

\* the environments of a client on its own: those above, and a Groq key with
\* LLM_MODEL naming the last model of the preferred order
ClientEnvs ==
    LLMEnvs
    \cup { [LLM_PROVIDER |-> "groq", LLM_MODEL |-> "mixtral-8x7b-32768",
            GROQ_API_KEY |-> TRUE, OPENAI_API_KEY |-> FALSE] }

InitLLM ==
    /\ config \in {get_config_from_env(e) : e \in ClientEnvs}
    /\ pc = "llm_request"
    /\ llm_tried = << >>
    /\ llm_statuses = << >>
    /\ llm_error = NoError
    /\ llm_exhausted = {}
    /\ llm_requests = 0
    /\ json_text = << >>
    /\ json_result = NoResult
    /\ call = NoCall
    /\ returned = NoCall
    /\ fetchers = << >>
    /\ newsapi_source_map = NoSourceMap
    /\ source_cache_file = NoCacheFile
    /\ PipelineIdle

\* llm_service.py:109-112: without a configuration the call raises at once
MakeRequestRefused ==
    /\ pc = "llm_request"
    /\ ~Configured(config)
    /\ pc' = "llm_raised"
    /\ llm_error' = [model |-> "", status |-> "not_configured"]
    /\ llm_requests' = llm_requests + 1
    /\ UNCHANGED << config, llm_tried, llm_statuses, llm_exhausted,
                    pipeline_vars, json_vars, helper_vars >>

\* llm_service.py:116-154, one model of the loop and, after the last, the raise
MakeRequestAttempt ==
    /\ pc = "llm_request"
    /\ Configured(config)
    /\ llm_tried' = Append(llm_tried, NextModel)
    /\ \E st \in LLMAnswers :
          /\ llm_statuses' = Append(llm_statuses, st)
          /\ llm_exhausted' = IF st = "429" THEN llm_exhausted \cup {NextModel}
                              ELSE llm_exhausted
          /\ IF st = "200"
             THEN /\ pc' = "llm_returned"
                  /\ llm_requests' = llm_requests + 1
                  /\ UNCHANGED llm_error
             ELSE /\ llm_error' = [model |-> NextModel, status |-> st]
                  /\ IF LastModel
                     THEN pc' = "llm_raised" /\ llm_requests' = llm_requests + 1
                     ELSE UNCHANGED << pc, llm_requests >>
    /\ UNCHANGED << config, pipeline_vars, json_vars, helper_vars >>

\* the next call of the client: select_news_sources, analyze_and_rank_articles
\* and generate_article_summary each make one (llm_service.py:209, 314, 383)
NextRequest ==
    /\ pc \in {"llm_returned", "llm_raised"}
    /\ llm_requests < MaxRequests
    /\ pc' = "llm_request"
    /\ llm_tried' = << >>
    /\ llm_statuses' = << >>
    /\ llm_error' = NoError
    /\ UNCHANGED << config, llm_exhausted, llm_requests, pipeline_vars, json_vars, helper_vars >>

NextLLM ==
    \/ MakeRequestRefused
    \/ MakeRequestAttempt
    \/ NextRequest

SpecLLM == InitLLM /\ [][NextLLM]_vars

(***************************************************************************)
(* utils/json_repair.py, the bundled implementation (lines 65-104), on its *)
(* own.  A text is a sequence of characters; the only whitespace of the    *)
(* alphabet is the space.                                                  *)
(***************************************************************************)
\* json_repair.py:70-83
jsonrepair(text) ==
    LET \* line 80: str.replace("'", '"')
        replaced == [i \in DOMAIN text |-> IF text[i] = "'" THEN "\"" ELSE text[i]]
        RECURSIVE SkipSpace(_, _)
        SkipSpace(s, i) ==
            IF i <= Len(s) /\ s[i] = " " THEN SkipSpace(s, i + 1) ELSE i
        \* line 82: re.sub(r",\s*([}\]])", r"\1", ...), the matches taken from
        \* left to right, each search starting where the last match ended
        RECURSIVE Sub(_, _)
        Sub(s, i) ==
            IF i > Len(s) THEN << >>
            ELSE LET j == SkipSpace(s, i + 1)
                 IN  IF s[i] = "," /\ j <= Len(s) /\ s[j] \in {"}", "]"}
                     THEN << s[j] >> \o Sub(s, j + 1)
                     ELSE << s[i] >> \o Sub(s, i + 1)
    IN  Sub(replaced, 1)

\* json_repair.py:100, json.loads of the standard library: JSONDecoder.decode
\* with scan_once, JSONObject, JSONArray and the string scanner.  Numbers and
\* the literals begin with characters the alphabet does not have, as do escapes.
json_loads(s) ==
    LET Fails == [ok |-> FALSE, end |-> 0, val |-> << >>]
        RECURSIVE SkipWs(_)
        SkipWs(i) == IF i <= Len(s) /\ s[i] = " " THEN SkipWs(i + 1) ELSE i
        Is(i, c) == i <= Len(s) /\ s[i] = c
        \* the string whose opening quote is at i - 1
        ParseString(i) ==
            IF \E j \in i .. Len(s) : s[j] = "\""
            THEN LET j == CHOOSE j \in i .. Len(s) :
                              /\ s[j] = "\""
                              /\ \A k \in i .. j - 1 : s[k] # "\""
                 IN  [ok |-> TRUE, end |-> j + 1,
                      val |-> [t |-> "str", v |-> SubSeq(s, i, j - 1)]]
            ELSE Fails
        \* dict assignment: a repeated key keeps its place and takes the value
        SetPair(pairs, key, val) ==
            IF \E p \in DOMAIN pairs : pairs[p][1] = key
            THEN [p \in DOMAIN pairs |->
                     IF pairs[p][1] = key THEN << key, val >> ELSE pairs[p]]
            ELSE Append(pairs, << key, val >>)
        RECURSIVE ScanOnce(_), ObjectMembers(_, _), ArrayItems(_, _)
        ScanOnce(i) ==
            IF Is(i, "\"") THEN ParseString(i + 1)
            ELSE IF Is(i, "{")
            THEN LET j == SkipWs(i + 1)
                 IN  IF Is(j, "}")
                     THEN [ok |-> TRUE, end |-> j + 1,
                           val |-> [t |-> "obj", v |-> << >>]]
                     ELSE IF Is(j, "\"") THEN ObjectMembers(j, << >>)
                     ELSE Fails
            ELSE IF Is(i, "[")
            THEN LET j == SkipWs(i + 1)
                 IN  IF Is(j, "]")
                     THEN [ok |-> TRUE, end |-> j + 1,
                           val |-> [t |-> "arr", v |-> << >>]]
                     ELSE ArrayItems(j, << >>)
            ELSE Fails
        \* the members of an object from the key whose quote is at j
        ObjectMembers(j, pairs) ==
            LET key == ParseString(j + 1)
                c == SkipWs(key.end)
                val == ScanOnce(SkipWs(c + 1))
                d == SkipWs(val.end)
                now == SetPair(pairs, key.val.v, val.val)
                e == SkipWs(d + 1)
            IN  IF ~key.ok \/ ~Is(c, ":") THEN Fails
                ELSE IF ~val.ok THEN Fails
                ELSE IF Is(d, "}")
                THEN [ok |-> TRUE, end |-> d + 1, val |-> [t |-> "obj", v |-> now]]
                ELSE IF Is(d, ",") /\ Is(e, "\"") THEN ObjectMembers(e, now)
                ELSE Fails
        \* the items of an array from the value at j
        ArrayItems(j, items) ==
            LET val == ScanOnce(j)
                d == SkipWs(val.end)
                now == Append(items, val.val)
            IN  IF ~val.ok THEN Fails
                ELSE IF Is(d, "]")
                THEN [ok |-> TRUE, end |-> d + 1, val |-> [t |-> "arr", v |-> now]]
                ELSE IF Is(d, ",") THEN ArrayItems(SkipWs(d + 1), now)
                ELSE Fails
        r == ScanOnce(SkipWs(1))
    IN  IF r.ok /\ SkipWs(r.end) = Len(s) + 1
        THEN [kind |-> "value", value |-> r.val]
        ELSE [kind |-> "JSONDecodeError", value |-> << >>]

loads_Lenient(text) ==
    LET r == json_loads(jsonrepair(Strip(text)))
    IN  IF r.kind = "value" THEN r
        ELSE [kind |-> "value", value |-> [t |-> "obj", v |-> << >>]]

\* json_repair.py:93-98: the text between the first "{" and the last "}"
BraceBounds(text) ==
    LET raw == Strip(text)
        opens == {i \in DOMAIN raw : raw[i] = "{"}
        closes == {i \in DOMAIN raw : raw[i] = "}"}
        start == CHOOSE i \in opens : \A k \in opens : i <= k
        end == CHOOSE i \in closes : \A k \in closes : k <= i
    IN  IF opens # {} /\ closes # {} /\ start < end
        THEN SubSeq(raw, start, end)
        ELSE raw

\* json_repair.py:85-100, for a str argument
loads(text) == json_loads(jsonrepair(BraceBounds(text)))

\* the characters of the texts
JsonChars == {"{", "}", "[", "]", ",", "'", "\"", " "}

InitJson ==
    /\ json_text \in UNION {[1 .. n -> JsonChars] : n \in 0 .. MaxText}
    /\ json_result = NoResult
    /\ pc = "json"
    /\ config = [provider |-> "none", model |-> "", api_key |-> FALSE]
    /\ llm_tried = << >>
    /\ llm_statuses = << >>
    /\ llm_error = NoError
    /\ llm_exhausted = {}
    /\ llm_requests = 0
    /\ call = NoCall
    /\ returned = NoCall
    /\ fetchers = << >>
    /\ newsapi_source_map = NoSourceMap
    /\ source_cache_file = NoCacheFile
    /\ PipelineIdle

\* a caller decodes the text (llm_service.py:217, 325)
CallLoads ==
    /\ pc = "json"
    /\ json_result' = loads(json_text)
    /\ pc' = "loaded"
    /\ UNCHANGED << json_text, config, llm_tried, llm_statuses, client_vars,
                    pipeline_vars, helper_vars >>

\* a caller repairs the text, and repairs what it got once more
CallRepair ==
    /\ pc \in {"json", "repaired"}
    /\ json_text' = jsonrepair(json_text)
    /\ pc' = IF pc = "json" THEN "repaired" ELSE "repaired_again"
    /\ UNCHANGED << json_result, config, llm_tried, llm_statuses, client_vars,
                    pipeline_vars, helper_vars >>

NextJson ==
    \/ CallLoads
    \/ CallRepair

SpecJson == InitJson /\ [][NextJson]_vars

(***************************************************************************)
(* Properties.                                                             *)
(***************************************************************************)
\* the run has answered 200 with a list of articles
Succeeded == pc = "done" /\ response.status = 200

\* the selection has returned sources and the loop has been entered
LoopEntered == select_path # "none" /\ selected_sources # << >>

\* an article without the two fields ranking adds
Unscored(article) ==
    [k \in DOMAIN article \ {"ai_score", "reasoning"} |-> article[k]]

\* ranked holds the articles of articles, each as often as there
SamePopulation(ranked, articles) ==
    /\ Len(ranked) = Len(articles)
    /\ \A i \in DOMAIN articles :
          Cardinality({j \in DOMAIN ranked : Unscored(ranked[j]) = articles[i]})
            = Cardinality({j \in DOMAIN articles : articles[j] = articles[i]})

AllScored(ranked) == \A i \in DOMAIN ranked : "ai_score" \in DOMAIN ranked[i]

NonIncreasing(ranked) ==
    \A i, j \in DOMAIN ranked : i < j => ranked[i]["ai_score"] >= ranked[j]["ai_score"]

\* every model of the list has been asked by the request in progress and has
\* answered 429
AllAnswered429 ==
    /\ Configured(config)
    /\ Len(llm_statuses) = Len(RequestModels(config))
    /\ \A i \in DOMAIN llm_statuses : llm_statuses[i] = "429"

C2_OutputTitlesDistinct ==
    Succeeded =>
        \A i, j \in DOMAIN response.articles :
            i < j => NormTitle(response.articles[i]) # NormTitle(response.articles[j])

\* C3: every article of the output has a published_at that parses and is at
\* most RecencyDays old.
C3_OutputRecent ==
    Succeeded =>
        \A i \in DOMAIN response.articles :
            /\ IsoParses(RStripZ(response.articles[i]["published_at"]))
            /\ IsoDay(RStripZ(response.articles[i]["published_at"]))
                  >= Today - RecencyDays

\* C4: every article of the output contains, in its lower-cased title and
\* content, a requested topic or a synonym of one (any article does when no
\* topic is requested).
C4_OutputRelevant ==
    Succeeded =>
        \A i \in DOMAIN response.articles :
            \/ request.topics = << >>
            \/ \E t \in DOMAIN request.topics :
                  \E k \in DOMAIN synonym_map(Strip(Lower(request.topics[t]))) :
                      Contains(Lower(response.articles[i]["title"] \o << " " >>
                                     \o response.articles[i]["content"]),
                               synonym_map(Strip(Lower(request.topics[t])))[k])

\* C5: every article the ranking returns, and every article stored, has an
\* ai_score between 1 and 100.
C5_ScoresInRange ==
    /\ rank_path # "none" =>
          \A i \in DOMAIN ranked_articles :
              /\ "ai_score" \in DOMAIN ranked_articles[i]
              /\ ranked_articles[i]["ai_score"] \in ScoreMin .. ScoreMax
    /\ \A i \in DOMAIN stored_articles :
          stored_articles[i]["ai_score"] \in ScoreMin .. ScoreMax

C7_All429Heuristic ==
    (AllAnswered429 /\ valid_articles # << >>) =>
        /\ pc = "store"
        /\ rank_path = "heuristic"
        /\ SamePopulation(ranked_articles, valid_articles)
        /\ AllScored(ranked_articles)
        /\ \A i \in DOMAIN ranked_articles :
              ranked_articles[i]["ai_score"]
                = FallbackScore(Unscored(ranked_articles[i]), request.topics)
        /\ NonIncreasing(ranked_articles)

\* the ranking of two articles has returned after every model answered 429
C7_All429Ranked ==
    /\ AllAnswered429
    /\ pc = "store"
    /\ Len(valid_articles) = 2

\* the names of the static list, llm_service.py:398-441
StaticNames ==
    << N_Reuters, N_Associated_Press, N_BBC_News, N_NPR, N_The_Guardian, N_Substack >>

\* C8: without a configured model, or when the request or the parsing of the
\* response fails, the selection returns the static list, with the regional
\* entry last exactly when the region is not "international"; without a
\* configured model no request is made.
C8_SelectionFallsBack ==
    /\ select_path \in {"no_config", "failed"} =>
          /\ [i \in DOMAIN selected_sources |-> selected_sources[i]["name"]]
                = IF request.region = "international" THEN StaticNames
                  ELSE Append(StaticNames, N_Local_News_Network)
          /\ \A i \in DOMAIN StaticNames : selected_sources[i] = StaticSources[i]
          /\ response.status # 400
    /\ select_path = "no_config" <=> (select_path # "none" /\ ~Configured(config))
    /\ ~Configured(config) => llm_tried = << >>

\* the selection has fallen back for a region after the model's reply did not
\* parse
C8_FellBackForRegion ==
    /\ select_path = "failed"
    /\ request.region # "international"
    /\ llm_statuses # << >>
    /\ llm_statuses[Len(llm_statuses)] = "200"
    /\ Len(selected_sources) = Len(StaticNames) + 1

\* C9: without a configured model the ranking makes no request and returns a
\* permutation of its input in which every article has a score and the scores
\* do not increase.
C9_NoConfigRanking ==
    (~Configured(config) /\ rank_path # "none") =>
        /\ llm_tried = << >>
        /\ rank_path = "heuristic"
        /\ SamePopulation(ranked_articles, valid_articles)
        /\ AllScored(ranked_articles)
        /\ NonIncreasing(ranked_articles)

\* without a configured model, the ranking has put the second of two articles
\* first
C9_NoConfigReordered ==
    /\ ~Configured(config)
    /\ pc = "store"
    /\ Len(valid_articles) = 2
    /\ Unscored(ranked_articles[1]) = valid_articles[2]
    /\ ranked_articles[1]["ai_score"] > ranked_articles[2]["ai_score"]

\* C10: a request for the topic "ai" for which sources are found ends without
\* an error response.
C10_HappyPathSucceeds ==
    (pc = "done" /\ request.topics = TL_ai /\ response.status # 400)
        => response.status = 200

\* the articles the search API can hand to the validation
PoolArticles == {ArticleOfItem(ApiPool[i]) : i \in DOMAIN ApiPool}

\* the synonyms registered for "ai" and "artificial intelligence"
RegisteredSynonyms ==
    {S_artificial_intelligence, S_ai, S_machine_learning, S_ml}

\* a requested topic has registered synonyms and the text of the article
\* holds one of them
HoldsRegisteredSynonym(article, topics) ==
    /\ \E i \in DOMAIN topics :
          Strip(Lower(topics[i])) \in {S_ai, S_artificial_intelligence}
    /\ \E syn \in RegisteredSynonyms :
          Contains(Lower(article["title"] \o << " " >> \o article["content"]), syn)

\* for each topic list of a request, whether the relevance check, given the
\* topics as generate_news hands them over, accepts every article of the pool
\* that holds a registered synonym
SynonymsAccepted ==
    [topics \in {r.topics : r \in Requests} |->
        \A article \in PoolArticles :
            HoldsRegisteredSynonym(article, topics)
                => is_article_relevant(article, transformed_topics(topics))]

\* C13: the relevance check, given the topics as generate_news hands them
\* over, accepts every article whose title and content hold a registered
\* synonym of a requested topic; with the topic "ai" an article that holds
\* only "machine learning" is accepted.
C13_SynonymAccepted == SynonymsAccepted[request.topics]

\* for the topic "ai", the loop has accepted an article whose text holds
\* "machine learning" and neither "ai" nor "artificial intelligence"
C13_MachineLearningAccepted ==
    /\ request.topics = TL_ai
    /\ \E i \in DOMAIN valid_articles :
          /\ Contains(combined_text(valid_articles[i]), S_machine_learning)
          /\ ~Contains(combined_text(valid_articles[i]), S_ai)
          /\ ~Contains(combined_text(valid_articles[i]), S_artificial_intelligence)

\* C18: the fetch loop makes at most 5 fetch calls for a request, whether the
\* calls return or raise, and makes a call only while fewer than desiredCount
\* valid articles are held.
C18_LoopBounded ==
    /\ [](attempt <= max_attempts)
    /\ [][attempt' = attempt + 1
            => /\ attempt < max_attempts
               /\ Len(valid_articles) < request.article_count]_vars

\* five calls have been made, the request is still short of desiredCount, and
\* the loop is over
C18_FiveRoundsShort ==
    /\ pc = "fetch"
    /\ attempt = max_attempts
    /\ valid_articles # << >>
    /\ Len(valid_articles) < request.article_count

\* C20: the result holds at most desiredCount articles, however many records
\* the ranking returned, and its total_count is the length of its list.
C20_ResultWithinCount ==
    Succeeded =>
        /\ Len(response.articles) <= request.article_count
        /\ response.total_count = Len(response.articles)

\* a successful result cut from a ranking that is longer than desiredCount
C20_RankingLongerThanCount ==
    /\ Succeeded
    /\ Len(ranked_articles) > request.article_count
    /\ Len(response.articles) = request.article_count

C14_FlagOnlyAfterAll429 ==
    [][(~newsapi_rate_limited /\ newsapi_rate_limited')
          => /\ Len(api_answered') = Len(newsapi_keys)
             /\ \A i \in DOMAIN api_answered' : api_answered'[i] = "429"]_vars

InMakeRequest == pc \in {"llm_request", "llm_returned", "llm_raised"}

\* the models are asked in ranked order, each at most once
AskedInRankedOrder ==
    /\ Len(llm_tried) <= Len(RequestModels(config))
    /\ \A i \in DOMAIN llm_tried : llm_tried[i] = RequestModels(config)[i]
    /\ \A i, j \in DOMAIN llm_tried : i < j => llm_tried[i] # llm_tried[j]

\* when every model has failed, the error raised is that of the last model
RaisesLastError ==
    (pc = "llm_raised" /\ Configured(config))
        => /\ Len(llm_tried) = Len(RequestModels(config))
           /\ llm_error = [model |-> llm_tried[Len(llm_tried)],
                           status |-> llm_statuses[Len(llm_statuses)]]

\* C16: a model that has answered 429 is sent no later request while its
\* cooldown of 300 s runs, by the call in progress or by a later call of the
\* client.
C16_NoRequestWhileCoolingDown ==
    [][(InMakeRequest /\ llm_tried' # llm_tried /\ llm_tried' # << >>)
          => llm_tried'[Len(llm_tried')] \notin llm_exhausted]_vars

\* C17 as stated: one request asks the models in ranked order, each at most
\* once, asks no model after one that answered 200, and raises the error of
\* the last model when every model failed.
C17_StopsAtFirst200 ==
    InMakeRequest =>
        /\ AskedInRankedOrder
        /\ \A i \in DOMAIN llm_statuses :
              llm_statuses[i] \in {"200", "200_undecodable"}
                  => i = Len(llm_statuses)
        /\ RaisesLastError

\* C17, amended: one request asks the models in ranked order, each at most
\* once, returns at the first model that answers 200 with a body that decodes
\* and asks no model after it, takes a 200 whose body does not decode for a
\* failure, and raises the error of the last model when every model failed.
C17_StopsAtFirstDecoded200 ==
    InMakeRequest =>
        /\ AskedInRankedOrder
        /\ \A i \in DOMAIN llm_statuses :
              llm_statuses[i] = "200"
                  => i = Len(llm_statuses) /\ pc = "llm_returned"
        /\ pc = "llm_returned" => llm_statuses[Len(llm_statuses)] = "200"
        /\ RaisesLastError

\* the first model answered 200 with a body that does not decode, the others
\* were asked and failed, and the call raised
C17_Undecoded200ThenRaised ==
    /\ pc = "llm_raised"
    /\ llm_tried = RequestModels(config)
    /\ Len(llm_tried) > 1
    /\ llm_statuses[1] = "200_undecodable"

\* C11: repairing a repaired text changes nothing, for every text whose repair
\* decodes as JSON.
C11_RepairIdempotent ==
    [][(pc = "repaired" /\ pc' = "repaired_again"
            /\ json_loads(json_text).kind = "value")
          => json_text' = json_text]_vars

C21_LaterRoundsQueryOtherOutlets ==
    [][(attempt >= 1 /\ attempt' = attempt + 1)
          => selected_sources' # selected_sources]_vars

\* C23: on the model path every ranked article carries the title of an input
\* article and the fields of that article the model's records never give, and
\* the ranking is in non-increasing ai_score order (no ai_score counting as 0).
C23_ModelRankingMergedAndSorted ==
    rank_path = "model" =>
        /\ \A i \in DOMAIN ranked_articles :
              \E j \in DOMAIN valid_articles :
                 /\ ranked_articles[i]["title"] = valid_articles[j]["title"]
                 /\ ranked_articles[i]["source"] = valid_articles[j]["source"]
        /\ \A i, j \in DOMAIN ranked_articles :
              i < j => Get(ranked_articles[i], "ai_score", 0)
                          >= Get(ranked_articles[j], "ai_score", 0)

\* the model has ranked two records with different scores
C23_TwoRankedByModel ==
    /\ rank_path = "model"
    /\ Len(ranked_articles) = 2
    /\ Get(ranked_articles[1], "ai_score", 0) > Get(ranked_articles[2], "ai_score", 0)

\* C25: on the model path no selected source has a name that contains an
\* excluded name, letter case aside.
C25_ExcludedSubstringRemoved ==
    select_path = "model" =>
        \A i \in DOMAIN selected_sources, j \in DOMAIN request.excluded_sources :
            ~Contains(Lower(selected_sources[i]["name"]),
                      Lower(request.excluded_sources[j]))

(***************************************************************************)
(* Helpers called on their own.  The variable call holds the helper's name *)
(* and its arguments, returned what the call gave back.                    *)
(***************************************************************************)
articles_summary_All(articles) ==
    [i \in DOMAIN articles |->
        [id |-> i - 1,
         title |-> Get(articles[i], "title", << >>),
         content |-> Get(articles[i], "content", << >>),
         source |-> Get(articles[i], "source", ""),
         published_at |-> Get(articles[i], "published_at", << >>)]]

\* llm_service.py:281-297, the articles written into the ranking prompt; the
\* prompt goes out in the one request of llm_service.py:313-317
articles_summary(articles) ==
    LET listed == Take(articles, PromptLimit)
        Cut(content) ==
            IF Len(content) > PromptContentLimit
            THEN Take(content, PromptContentLimit) \o << ".",".","." >>
            ELSE content
    IN  [i \in DOMAIN listed |->
            [id |-> i - 1,
             title |-> Get(listed[i], "title", << >>),
             content |-> Cut(Get(listed[i], "content", << >>)),
             source |-> Get(listed[i], "source", ""),
             published_at |-> Get(listed[i], "published_at", << >>)]]

generate_article_summary_Short(cfg, content, answer) ==
    [summary |-> content, requests |-> 0]

\* llm_service.py:355-395.  answer is what _make_request does when it is
\* called: it raises, or it returns a reply with this text.  Returns the
\* summary and the number of calls of _make_request.
generate_article_summary(cfg, content, answer) ==
    LET RECURSIVE Words(_, _)
        \* str.split(): the words of s, word being the one in progress
        Words(s, word) ==
            IF s = << >> THEN (IF word = << >> THEN << >> ELSE << word >>)
            ELSE IF Head(s) = " "
                 THEN (IF word = << >> THEN << >> ELSE << word >>)
                          \o Words(Tail(s), << >>)
                 ELSE Words(Tail(s), Append(word, Head(s)))
        RECURSIVE Join(_)
        Join(ws) ==
            IF ws = << >> THEN << >>
            ELSE IF Len(ws) = 1 THEN Head(ws)
            ELSE Head(ws) \o << " " >> \o Join(Tail(ws))
        RECURSIVE Clean(_)
        \* re.sub(r"^[\-\•\s]+", "", text)
        Clean(s) ==
            IF s # << >> /\ Head(s) \in {"-", " "} THEN Clean(Tail(s)) ELSE s
        words == Words(content, << >>)
        truncated ==
            Join(Take(words, SummaryWords))
                \o (IF Len(words) > SummaryWords THEN << ".",".","." >> ELSE << >>)
    IN  IF ~Configured(cfg) THEN [summary |-> truncated, requests |-> 0]
        ELSE IF answer.raises THEN [summary |-> truncated, requests |-> 1]
        ELSE [summary |-> Clean(Strip(answer.text)), requests |-> 1]

NeedsManualFetch_Always(entries) == TRUE

\* news_aggregator.py:688, "if not entries:"
NeedsManualFetch(entries) == entries = << >>

\* news_aggregator.py:633-798.  feeds tells, for each name of rss_feed_map, how
\* its feed behaves: what feedparser makes of it ("parsed", "bozo", "raises"),
\* what the manual download gets ("ok", "status", "bad_xml") and the entries
\* of the document.  Returns the articles and, for each feed, the number of
\* times its URL was requested.
_fetch_rss_articles(topics, sources, count, feeds, feedparser_available) ==
    LET max_per_source == Max(1, count \div Max(1, Len(sources)))
        topic_keywords == [i \in DOMAIN topics |-> Lower(topics[i])]
        StartsWithHttp(s) == Len(s) >= 4 /\ SubSeq(s, 1, 4) = << "h","t","t","p" >>
        \* 735-749: the link of a manually parsed item, None when it is not absolute
        ManualLink(l) == IF StartsWithHttp(Strip(l)) THEN Strip(l) ELSE << >>
        \* 712-725, 759-775: published_dt of an entry, utcnow() when it does not parse
        PublishedDay(e) == IF IsoParses(e.published) THEN IsoDay(e.published) ELSE Today
        \* 778-783
        Kept(e) ==
            LET text == Lower(e.title \o << " " >> \o e.description)
            IN  /\ topic_keywords = << >>
                   \/ \E k \in DOMAIN topic_keywords : Contains(text, topic_keywords[k])
                /\ ~(PublishedDay(e) < Today - RecencyDays)
        \* 784-793
        Article(name, e) ==
            [title |-> e.title, content |-> e.description, url |-> e.link,
             source |-> name, published_at |-> IsoFormat(PublishedDay(e))]
        RECURSIVE Processed(_, _)
        Processed(name, entries) ==
            IF entries = << >> THEN << >>
            ELSE (IF Kept(Head(entries)) THEN << Article(name, Head(entries)) >>
                  ELSE << >>) \o Processed(name, Tail(entries))
        \* 661-793, one source: its articles and the requests of its feed URL
        OfSource(source) ==
            LET name == Get(source, "name", "")
                f == feeds[name]
                first == IF feedparser_available THEN 1 ELSE 0
                parsed == IF feedparser_available /\ f.parser = "parsed"
                          THEN f.entries ELSE << >>
                manual == [i \in DOMAIN f.entries |->
                              [f.entries[i] EXCEPT !.link = ManualLink(@)]]
            IN  IF name = "" \/ name \notin DOMAIN feeds
                THEN [arts |-> << >>, name |-> name, fetches |-> 0]
                ELSE IF feedparser_available /\ f.parser = "bozo"
                THEN [arts |-> << >>, name |-> name, fetches |-> 1]
                ELSE IF ~NeedsManualFetch(parsed)
                THEN [arts |-> Processed(name, Take(parsed, max_per_source * 2)),
                      name |-> name, fetches |-> first]
                ELSE IF f.manual # "ok"
                THEN [arts |-> << >>, name |-> name, fetches |-> first + 1]
                ELSE [arts |-> Processed(name, Take(manual, max_per_source * 2)),
                      name |-> name, fetches |-> first + 1]
        per == [i \in DOMAIN sources |-> OfSource(sources[i])]
        RECURSIVE Collected(_)
        Collected(i) == IF i > Len(sources) THEN << >>
                        ELSE per[i].arts \o Collected(i + 1)
        RECURSIVE Fetches(_, _)
        Fetches(name, i) ==
            IF i > Len(sources) THEN 0
            ELSE (IF per[i].name = name THEN per[i].fetches ELSE 0)
                    + Fetches(name, i + 1)
    IN  [arts |-> Take(SortByPublishedDesc(Collected(1)), count * 2),
         fetches |-> [name \in DOMAIN feeds |-> Fetches(name, 1)]]

\* n articles with the titles "01", "02", ...
NumberedArticles(n) ==
    [i \in 1 .. n |-> [title |-> IsoFormat(i), content |-> S_ai, source |-> "s1",
                       published_at |-> D_today]]

\* entries of a feed document: one with an absolute link, one without a link,
\* one with a relative link, one older than the recency window
RssEntryPool ==
    { [title |-> T_AI, description |-> << >>,
       link |-> << "h","t","t","p","1" >>, published |-> D_today],
      [title |-> T_AI_f, description |-> << >>,
       link |-> << >>, published |-> D_bad],
      [title |-> T_AI, description |-> S_ml,
       link |-> << "/","a" >>, published |-> D_edge],
      [title |-> T_AI_old, description |-> << >>,
       link |-> << "h","t","t","p","2" >>, published |-> D_old] }

FeedBehaviours ==
    {[parser |-> p, manual |-> m, entries |-> e] :
        p \in {"parsed", "bozo", "raises"},
        m \in {"ok", "status", "bad_xml"},
        e \in UNION {[1 .. n -> RssEntryPool] : n \in 0 .. MaxEntries}}

\* rss_feed_map with one feed, and with a second feed that always parses
FeedWorlds ==
    {[name \in {"f1"} |-> b] : b \in FeedBehaviours}
    \cup {[name \in {"f1", "f2"} |->
              IF name = "f1" THEN b
              ELSE [parser |-> "parsed", manual |-> "ok",
                    entries |-> << [title |-> T_AI, description |-> S_ai,
                                    link |-> << "h","t","t","p","1" >>,
                                    published |-> D_edge] >>]] :
            b \in FeedBehaviours}

\* answers of the search API to the one request of a call: a failure, an
\* empty page, a page with one article
CallAnswers ==
    {[status |-> "500", items |-> << >>], [status |-> "200", items |-> << >>],
     [status |-> "200", items |-> PoolItems({1})]}

\* a request that raises, and one that is answered 429
FailedAnswers ==
    {[status |-> "error", items |-> << >>], [status |-> "429", items |-> << >>]}

\* a single feed that cannot be read, and a malformed feed before a good one
FailingFeedWorlds ==
    {w \in FeedWorlds :
        /\ w["f1"].entries = << >>
        /\ w["f1"].manual = "status"
        /\ w["f1"].parser \in {"raises", "bozo"}}

\* the sources argument of a call that does not give it
SourcesOmitted == [given |-> FALSE, list |-> << >>]

\* a call of fetch_articles: the topic argument (a list), count, what the
\* search API answers to the request of each topic, the feeds, and the mode
\* and sources arguments ("omitted" for a mode the call does not give,
\* "none" for None)
FetchCall(topics, n, answers, w, fp, mode, sources) ==
    [fn |-> "fetch_articles", topics |-> topics, count |-> n,
     answers |-> answers, feeds |-> w, feedparser_available |-> fp,
     mode |-> mode, sources |-> sources]

ScoredArticles ==
    { [title |-> T_AI, content |-> << >>], [title |-> T_AI, content |-> S_ml],
      [title |-> T_AI, content |-> << "m" >>] }

SummaryContents ==
    { << >>, S_ai, S_machine_learning, << " ","a","i"," "," ","m","l" >> }

SummaryAnswers ==
    { [raises |-> TRUE, text |-> << >>],
      [raises |-> FALSE, text |-> << "-"," ","a","i"," " >>],
      [raises |-> FALSE, text |-> S_ml] }

HelperCalls ==
    {[fn |-> "analyze_and_rank_articles", articles |-> NumberedArticles(n)] :
        n \in 0 .. MaxArticles}
    \cup {[fn |-> "generate_article_summary", config |-> get_config_from_env(e),
           content |-> c, answer |-> a] :
            e \in LLMEnvs, c \in SummaryContents, a \in SummaryAnswers}
    \cup {[fn |-> "_fallback_scoring", articles |-> arts, topics |-> tl] :
            arts \in UNION {[1 .. n -> ScoredArticles] : n \in 0 .. 2},
            tl \in { << >>, << S_ai >>, << S_ml >>, << S_ai, S_ml >>,
                     << << "a" >>, << "i" >>, << "m" >>, << "l" >>, S_ai, S_ml >> }}
    \cup {FetchCall(<< S_ai >>, n, << a >>, w, fp, "omitted", SourcesOmitted) :
            n \in 1 .. MaxCount, a \in CallAnswers, w \in FeedWorlds,
            fp \in BOOLEAN}
    \cup {FetchCall(<< S_ai, S_ml >>, n, a, w, TRUE, "omitted", SourcesOmitted) :
            n \in 1 .. MaxCount,
            a \in [1 .. 2 -> CallAnswers \cup FailedAnswers],
            w \in FailingFeedWorlds}
    \cup {FetchCall(<< S_ai >>, 1, << a >>, w, TRUE, m,
                    [given |-> TRUE, list |-> l]) :
            a \in CallAnswers, w \in FailingFeedWorlds,
            m \in {"omitted", "global", "legacy", "none"},
            l \in {<< >>, << [name |-> "f1"] >>}}

InitCalls ==
    /\ call \in HelperCalls
    /\ returned = NoCall
    /\ fetchers = << >>
    /\ newsapi_source_map = NoSourceMap
    /\ source_cache_file = NoCacheFile
    /\ pc = "call"
    /\ config = [provider |-> "none", model |-> "", api_key |-> FALSE]
    /\ llm_tried = << >>
    /\ llm_statuses = << >>
    /\ llm_error = NoError
    /\ llm_exhausted = {}
    /\ llm_requests = 0
    /\ json_text = << >>
    /\ json_result = NoResult
    /\ PipelineIdle

\* [name of the first feed, name of the second, ...], the keys of rss_feed_map
\* in their order (news_aggregator.py:491)
rss_sources(feeds) ==
    IF "f2" \in DOMAIN feeds THEN << [name |-> "f1"], [name |-> "f2"] >>
    ELSE << [name |-> "f1"] >>

\* news_aggregator.py:425, 450: whether the call takes the legacy pipeline;
\* a call without a mode argument gets the default of the parameter
UsesLegacy(sources, mode_argument) ==
    LET mode == IF mode_argument = "omitted" THEN "global" ELSE mode_argument
    IN  sources.given /\ mode \notin {"global", "local"}

NextCalls ==
    /\ pc = "call"
    /\ pc' = "returned"
    /\ \/ \* llm_service.py:240-353 with a configuration: the one request of
          \* the call (313-317) carries the prompt built from articles_summary
          /\ call.fn = "analyze_and_rank_articles"
          /\ returned' = [fn |-> call.fn,
                          requests |-> << articles_summary(call.articles) >>]
       \/ \* llm_service.py:355-395
          /\ call.fn = "generate_article_summary"
          /\ returned' = [fn |-> call.fn,
                          result |-> generate_article_summary(
                                        call.config, call.content, call.answer)]
       \/ \* llm_service.py:454-464
          /\ call.fn = "_fallback_scoring"
          /\ returned' = [fn |-> call.fn,
                          articles |-> _fallback_scoring(call.articles, call.topics)]
       \/ \* news_aggregator.py:456-517, mode "global", flag not set: one
          \* request per topic and, when they yield nothing, one RSS fetch
          \* per topic
          /\ call.fn = "fetch_articles"
          /\ ~UsesLegacy(call.sources, call.mode)
          /\ LET answers == [t \in DOMAIN call.topics |->
                                [k \in DOMAIN newsapi_keys |-> call.answers[t]]]
                 api == GlobalTopics(FALSE, newsapi_keys, answers, call.count, 1)
                 rss_calls ==
                     IF DedupByUrl(api.arts) = << >>
                     THEN [t \in DOMAIN call.topics |->
                              _fetch_rss_articles(<< call.topics[t] >>,
                                                  rss_sources(call.feeds), call.count,
                                                  call.feeds,
                                                  call.feedparser_available)]
                     ELSE << >>
                 RECURSIVE Extended(_)
                 Extended(t) == IF t > Len(rss_calls) THEN << >>
                                ELSE rss_calls[t].arts \o Extended(t + 1)
                 result == fetch_articles(FALSE, newsapi_keys, answers, Extended(1),
                                          call.count)
             IN  returned' =
                     [fn |-> call.fn,
                      pipeline |-> "global",
                      api_articles |-> DedupByUrl(api.arts),
                      answered |-> result.answered,
                      rss_calls |-> rss_calls,
                      articles |-> result.arts]
       \/ \* news_aggregator.py:450-454: the call goes to
          \* _legacy_fetch_articles with the sources it was given
          /\ call.fn = "fetch_articles"
          /\ UsesLegacy(call.sources, call.mode)
          /\ returned' = [fn |-> call.fn, pipeline |-> "legacy",
                          queried |-> call.sources.list]
    /\ UNCHANGED << call, fetchers, config, llm_tried, llm_statuses, client_vars,
                    json_vars, pipeline_vars, newsapi_source_map,
                    source_cache_file >>

SpecCalls == InitCalls /\ [][NextCalls]_vars

C26_ShortContentNotSent ==
    (call.fn = "generate_article_summary" /\ returned.fn = call.fn) =>
        /\ returned.result.requests = 0
        /\ returned.result.summary = call.content

\* the characters of s that are not spaces
Unspaced(s) == LET NotSpace(c) == c # " " IN SelectSeq(s, NotSpace)

\* s has no space at either end and no two spaces in a row
SingleSpaced(s) ==
    /\ s # << >> => s[1] # " " /\ s[Len(s)] # " "
    /\ \A i \in 1 .. Len(s) - 1 : ~(s[i] = " " /\ s[i + 1] = " ")

\* C26, amended: summarizing makes one model request whenever the client is
\* configured, whatever the length of the content, and none otherwise.  With
\* a reply, the summary is the reply without the spaces around it and
\* without leading dashes; without a configuration or when the request
\* raises, it is the words of the content (40 at most) joined by single
\* spaces.
C26_AsksModelWheneverConfigured ==
    (call.fn = "generate_article_summary" /\ returned.fn = call.fn) =>
        LET summary == returned.result.summary
            reply == Strip(call.answer.text)
        IN  /\ returned.result.requests = IF Configured(call.config) THEN 1 ELSE 0
            /\ (Configured(call.config) /\ ~call.answer.raises) =>
                  /\ \E k \in 0 .. Len(reply) :
                        /\ summary = SubSeq(reply, k + 1, Len(reply))
                        /\ \A i \in 1 .. k : reply[i] \in {"-", " "}
                  /\ summary # << >> => summary[1] \notin {"-", " "}
            /\ (~Configured(call.config) \/ call.answer.raises) =>
                  /\ SingleSpaced(summary)
                  /\ Unspaced(summary) = Unspaced(call.content)

\* a configured client has summarized a short content with one request, and
\* the summary is not the content
C26_ShortContentSummarizedByModel ==
    /\ call.fn = "generate_article_summary"
    /\ returned.fn = call.fn
    /\ Configured(call.config)
    /\ call.content = S_ai
    /\ returned.result.requests = 1
    /\ returned.result.summary = S_ml

\* the number of the topics that occur in title and content of the article
TopicHits(article, topics) ==
    Cardinality({i \in DOMAIN topics :
                    Contains(Lower(article["title"] \o << " " >> \o article["content"]),
                             Lower(topics[i]))})

\* C27 as stated: two articles that each hold at least one requested topic
\* get the same score from the heuristic scorer.
C27_OneBonusForAnyMatch ==
    (call.fn = "_fallback_scoring" /\ returned.fn = call.fn) =>
        \A i, j \in DOMAIN returned.articles :
            (/\ TopicHits(returned.articles[i], call.topics) >= 1
             /\ TopicHits(returned.articles[j], call.topics) >= 1)
                => returned.articles[i]["ai_score"] = returned.articles[j]["ai_score"]

\* C27, amended: the heuristic scorer adds the bonus once for each requested
\* topic that occurs in title and content, up to the cap: an article without
\* a topic keeps the base score, articles with the same number of topics get
\* the same score, and one with more topics gets a higher score unless the
\* other has reached the cap.
C27_BonusPerMatchingTopic ==
    (call.fn = "_fallback_scoring" /\ returned.fn = call.fn) =>
        \A i, j \in DOMAIN returned.articles :
            LET a == returned.articles[i]
                b == returned.articles[j]
            IN  /\ TopicHits(a, call.topics) = 0 => a["ai_score"] = FallbackBase
                /\ a["ai_score"] <= FallbackCap
                /\ TopicHits(a, call.topics) = TopicHits(b, call.topics)
                      => a["ai_score"] = b["ai_score"]
                /\ TopicHits(a, call.topics) > TopicHits(b, call.topics)
                      => \/ a["ai_score"] > b["ai_score"]
                         \/ b["ai_score"] = FallbackCap

\* the scorer has returned two articles that each hold a requested topic,
\* with different scores
C27_TwoMatchesScoredApart ==
    /\ call.fn = "_fallback_scoring"
    /\ returned.fn = call.fn
    /\ \E i, j \in DOMAIN returned.articles :
          /\ TopicHits(returned.articles[i], call.topics) >= 1
          /\ TopicHits(returned.articles[j], call.topics) >= 1
          /\ returned.articles[i]["ai_score"] > returned.articles[j]["ai_score"]

\* the articles the RSS fetcher returned to this call of fetch_articles
RssReturned ==
    LET RECURSIVE Extended(_)
        Extended(t) == IF t > Len(returned.rss_calls) THEN << >>
                       ELSE returned.rss_calls[t].arts \o Extended(t + 1)
    IN  Extended(1)

\* C28 as stated: in global mode, when the search API yields no article and
\* the RSS fetch yields an article with a link, fetch_articles returns a
\* non-empty list of the RSS articles, no url twice, of at most
\* max(1, 2 * count) entries.
C28_RssArticlesReturned ==
    (/\ call.fn = "fetch_articles"
     /\ returned.fn = call.fn
     /\ returned.pipeline = "global"
     /\ returned.api_articles = << >>
     /\ \E i \in DOMAIN RssReturned : RssReturned[i].url # << >>)
        => /\ returned.articles # << >>
           /\ \A i \in DOMAIN returned.articles :
                 \E j \in DOMAIN RssReturned : returned.articles[i] = RssReturned[j]
           /\ \A i, j \in DOMAIN returned.articles :
                 i # j => returned.articles[i].url # returned.articles[j].url
           /\ Len(returned.articles) <= Max(1, 2 * call.count)

\* C29 as stated: every article the RSS fetcher returns has a non-empty
\* absolute url and a publication date no older than 7 days.
C29_RssArticleHasAbsoluteUrl ==
    (call.fn = "fetch_articles" /\ returned.fn = call.fn /\ returned.pipeline = "global") =>
        \A i \in DOMAIN RssReturned :
            /\ Len(RssReturned[i].url) >= 4
            /\ SubSeq(RssReturned[i].url, 1, 4) = << "h","t","t","p" >>
            /\ IsoDay(RssReturned[i].published_at) >= Today - RecencyDays

\* C30 as stated: within one RSS fetch call each feed URL is requested at
\* most once.
C30_EachFeedRequestedOnce ==
    (call.fn = "fetch_articles" /\ returned.fn = call.fn /\ returned.pipeline = "global") =>
        \A c \in DOMAIN returned.rss_calls :
            \A name \in DOMAIN returned.rss_calls[c].fetches :
                returned.rss_calls[c].fetches[name] <= 1

\* C30, amended: within one RSS fetch call each feed URL is requested once
\* or twice, and twice only when feedparser is installed and its request
\* raised or gave no entries, the second request being the manual download;
\* a feed that feedparser flags as malformed is requested once and skipped.
C30_SecondRequestOnlyAfterFeedparser ==
    (call.fn = "fetch_articles" /\ returned.fn = call.fn /\ returned.pipeline = "global") =>
        \A c \in DOMAIN returned.rss_calls :
            \A name \in DOMAIN returned.rss_calls[c].fetches :
                LET n == returned.rss_calls[c].fetches[name]
                    f == call.feeds[name]
                IN  /\ n \in {1, 2}
                    /\ n = 2 <=>
                          /\ call.feedparser_available
                          /\ \/ f.parser = "raises"
                             \/ f.parser = "parsed" /\ f.entries = << >>

\* an RSS fetch call has requested the URL of a feed twice
C30_FeedRequestedTwice ==
    /\ call.fn = "fetch_articles"
    /\ returned.fn = call.fn
    /\ returned.pipeline = "global"
    /\ returned.rss_calls # << >>
    /\ returned.rss_calls[1].fetches["f1"] = 2

(***************************************************************************)
(* Fetches that run concurrently in one process.  The aggregator is a      *)
(* module-level object, its flag newsapi_rate_limited is shared by all     *)
(* requests being served; a coroutine runs without interruption from one   *)
(* await to the next.  fetchers[t] is the fetch of task t: its kind        *)
(* ("global" for _fetch_global_articles, "real" for _fetch_real_articles   *)
(* called by _legacy_fetch_articles), its place, the index i of the key    *)
(* or of the (topic, source) pair it is at, and encountered_rate_limit.    *)
(***************************************************************************)
InitFetch ==
    /\ fetchers \in [1 .. MaxTasks ->
                        {[kind |-> k, pc |-> "idle", i |-> 1, enc |-> TRUE] :
                            k \in {"global", "real"}}]
    /\ call = NoCall
    /\ returned = NoCall
    /\ newsapi_source_map = NoSourceMap
    /\ source_cache_file = NoCacheFile
    /\ pc = "fetches"
    /\ config = [provider |-> "none", model |-> "", api_key |-> FALSE]
    /\ llm_tried = << >>
    /\ llm_statuses = << >>
    /\ llm_error = NoError
    /\ llm_exhausted = {}
    /\ llm_requests = 0
    /\ json_text = << >>
    /\ json_result = NoResult
    /\ PipelineIdle

NextFetch ==
    /\ \E t \in DOMAIN fetchers :
          LET f == fetchers[t]
              \* the requests the fetch may send: one per key (266), or one
              \* per (topic, source) pair (582-583)
              RequestsOf(g) == IF g.kind = "global" THEN MaxKeys ELSE MaxPairs
          IN  \/ \* news_aggregator.py:256-264 and 196: the call starts; it
                 \* returns at once when the flag is set
                 /\ f.pc = "idle"
                 /\ fetchers' = [fetchers EXCEPT ![t].pc =
                                    IF newsapi_rate_limited THEN "done" ELSE "loop"]
                 /\ UNCHANGED newsapi_rate_limited
              \/ \* news_aggregator.py:279-280 and 595: session.get sends the
                 \* request of key or pair i and the coroutine waits
                 /\ f.pc = "loop"
                 /\ fetchers' = [fetchers EXCEPT ![t].pc = "awaiting"]
                 /\ UNCHANGED newsapi_rate_limited
              \/ \* news_aggregator.py:281-320 and 596-606: the answer
                 \* arrives (a status, or the request raises; an exception
                 \* ends a legacy fetch, news_aggregator.py:207)
                 /\ f.pc = "awaiting"
                 /\ \E status \in {"200", "429", "500", "error"} :
                       IF f.kind = "global"
                       THEN LET goes_on == status \in {"429", "error"}
                                           /\ f.i < RequestsOf(f)
                                enc == f.enc /\ status \in {"429", "error"}
                            IN  /\ fetchers' =
                                     [fetchers EXCEPT
                                        ![t] = [kind |-> f.kind,
                                                pc |-> IF goes_on THEN "loop" ELSE "done",
                                                i |-> IF goes_on THEN f.i + 1 ELSE f.i,
                                                enc |-> enc]]
                                /\ newsapi_rate_limited' =
                                     (newsapi_rate_limited \/ (~goes_on /\ enc))
                       ELSE LET goes_on == status # "error" /\ f.i < RequestsOf(f)
                            IN
                            /\ fetchers' =
                                 [fetchers EXCEPT
                                    ![t].pc = IF goes_on THEN "loop" ELSE "done",
                                    ![t].i = IF goes_on THEN f.i + 1 ELSE f.i]
                            /\ newsapi_rate_limited' =
                                 (newsapi_rate_limited \/ status = "429")
    /\ UNCHANGED << request, has_excluded, selected_sources, attempt,
                    valid_articles, accepted_in, rank_path, select_path,
                    ranked_articles, stored_articles, response, api_answered,
                    config, pc, llm_tried, llm_statuses, client_vars, json_vars,
                    call, returned, newsapi_source_map, source_cache_file >>

SpecFetch == InitFetch /\ [][NextFetch]_vars

\* C22 as stated: no search-API request is sent while the rate-limited flag
\* is set, neither by the call that set it nor by a call that was already
\* inside its fetch when another one set it.
C22_NoRequestWhileFlagSet ==
    [][\A t \in DOMAIN fetchers :
          (fetchers[t].pc = "loop" /\ fetchers'[t].pc = "awaiting")
             => ~newsapi_rate_limited]_vars

(***************************************************************************)
(* Further claims about the pipeline, on Spec.                             *)
(***************************************************************************)
\* C35: the first round of the fetch loop asks for max(1, 3 * desired_count)
\* items and every later round for max(1, 2 * remaining), remaining being
\* desired_count minus the number of valid articles at the start of the round.
C35_RoundCounts ==
    (pc = "fetch" /\ LoopGoesOn) =>
        FetchCount(attempt, desired_count, valid_articles)
            = IF attempt = 0 THEN Max(1, 3 * desired_count)
              ELSE Max(1, 2 * (desired_count - Len(valid_articles)))

\* a later round starts with one article accepted and one still wanted
C35_LaterRoundWithRemainder ==
    /\ pc = "fetch"
    /\ LoopGoesOn
    /\ attempt >= 1
    /\ Len(valid_articles) = 1
    /\ desired_count = 2

\* C36: the number of accepted articles never exceeds desired_count, and a
\* step never removes or replaces an accepted article: the accepted list
\* before the step is the beginning of the accepted list after it.
C36_AcceptedBoundedAndGrowing ==
    [][/\ Len(valid_articles') <= desired_count'
       /\ Len(valid_articles) <= Len(valid_articles')
       /\ \A i \in DOMAIN valid_articles : valid_articles'[i] = valid_articles[i]]_vars

\* two articles were accepted, the second one in a later round than the first
C36_AcceptedOverTwoRounds ==
    /\ Len(valid_articles) = 2
    /\ Len(accepted_in) = 2
    /\ accepted_in[1] < accepted_in[2]

\* C38 as stated: on every path of the source selection, no selected source
\* has a name equal, letter case aside, to an excluded source.
C38_NoExcludedNameSelected ==
    select_path # "none" =>
        \A i \in DOMAIN selected_sources, j \in DOMAIN request.excluded_sources :
            Lower(Get(selected_sources[i], "name", << >>))
                # Lower(request.excluded_sources[j])

\* C39 as stated: the source selection never returns an empty list, and the
\* handler never ends with the answer for an empty source list.
C39_SourcesNeverEmpty ==
    select_path # "none" =>
        /\ selected_sources # << >>
        /\ response.status # 400

\* C40 as stated: every ranked article has the url, published_at, source and
\* content of the input article with its title.
C40_RankingKeepsFields ==
    rank_path # "none" =>
        \A i \in DOMAIN ranked_articles :
            \E j \in DOMAIN valid_articles :
                /\ ranked_articles[i]["title"] = valid_articles[j]["title"]
                /\ \A k \in {"url", "published_at", "source", "content"} :
                      Get(ranked_articles[i], k, "none") = Get(valid_articles[j], k, "none")

\* C33 as stated: when the environment names a model that the configured
\* provider knows, every request of the client asks that model first.
C33_EnvModelAskedFirst ==
    (/\ Configured(config)
     /\ config.model \in ProviderModels(config.provider)
     /\ llm_tried # << >>)
        => llm_tried[1] = config.model

\* C37 as stated: for a text that is valid JSON, loads returns the value that
\* json.loads of the standard library returns for the text.
C37_ValidJsonDecodedAlike ==
    (pc = "loaded" /\ json_loads(json_text).kind = "value")
        => json_result = json_loads(json_text)

(***************************************************************************)
(* The cache of discovered source identifiers.  Each task runs the loop    *)
(* body of _legacy_fetch_articles for one source whose name is not in      *)
(* newsapi_source_map.  The only await of the body is the discovery        *)
(* request; from its return to the end of the write no statement awaits,   *)
(* so the event loop runs that stretch as one step.                        *)
(***************************************************************************)
\* the names looked up, and the identifier /v2/sources lists for each
SourceNames == {"n1", "n2"}

DiscoveredId(name) == IF name = "n1" THEN "id1" ELSE "id2"

\* what the file may hold before: nothing, a mapping written earlier, or
\* something that is not JSON
CacheFiles ==
    { NoCacheFile,
      [state |-> "json", map |-> [k \in {"n0"} |-> "id0"]],
      [state |-> "corrupt", map |-> << >>] }

PersistMapping_Overwrite(file, name, discovered) ==
    [state |-> "json", map |-> [k \in {name} |-> discovered]]

\* news_aggregator.py:166-180: the file is read (an absent or undecodable
\* file counts as {}), the mapping is added and the whole map is written
PersistMapping(file, name, discovered) ==
    [state |-> "json",
     map |-> Merge(IF file.state = "json" THEN file.map ELSE << >>,
                   [k \in {name} |-> discovered])]

InitCache ==
    /\ fetchers \in [1 .. MaxTasks ->
                        {[kind |-> "legacy", pc |-> "idle", name |-> n,
                          persisted |-> FALSE] : n \in SourceNames}]
    /\ source_cache_file \in CacheFiles
    /\ newsapi_source_map = NoSourceMap
    /\ call = NoCall
    /\ returned = NoCall
    /\ pc = "legacy"
    /\ config = [provider |-> "none", model |-> "", api_key |-> FALSE]
    /\ llm_tried = << >>
    /\ llm_statuses = << >>
    /\ llm_error = NoError
    /\ llm_exhausted = {}
    /\ llm_requests = 0
    /\ json_text = << >>
    /\ json_result = NoResult
    /\ PipelineIdle

NextCache ==
    /\ \E t \in DOMAIN fetchers :
          LET f == fetchers[t]
          IN  \/ \* news_aggregator.py:153-163: a name that is in the map by
                 \* now needs no discovery, nor is one made once the flag is
                 \* set; else the discovery request goes out
                 /\ f.pc = "idle"
                 /\ fetchers' = [fetchers EXCEPT ![t].pc =
                                    IF f.name \in DOMAIN newsapi_source_map
                                       \/ newsapi_rate_limited
                                    THEN "done" ELSE "discovering"]
                 /\ UNCHANGED << newsapi_rate_limited, newsapi_source_map,
                                 source_cache_file >>
              \/ \* news_aggregator.py:163 with 540-551, 183-184: the
                 \* discovery finds nothing, is answered 429, or raises
                 /\ f.pc = "discovering"
                 /\ \E answer \in {"none", "429", "raises"} :
                       newsapi_rate_limited' =
                           (newsapi_rate_limited \/ answer = "429")
                 /\ fetchers' = [fetchers EXCEPT ![t].pc = "done"]
                 /\ UNCHANGED << newsapi_source_map, source_cache_file >>
              \/ \* news_aggregator.py:163-182: the discovery returns an
                 \* identifier; it is put into the map and persisted.  A
                 \* write that raises leaves the file as it was or, when the
                 \* file was opened for writing already, without its JSON.
                 /\ f.pc = "discovering"
                 /\ newsapi_source_map' =
                        Merge(newsapi_source_map,
                              [k \in {f.name} |-> DiscoveredId(f.name)])
                 /\ \/ /\ source_cache_file' =
                              PersistMapping(source_cache_file, f.name,
                                             DiscoveredId(f.name))
                       /\ fetchers' = [fetchers EXCEPT ![t].pc = "done",
                                                       ![t].persisted = TRUE]
                    \/ /\ source_cache_file' \in
                              {source_cache_file,
                               [state |-> "corrupt", map |-> << >>]}
                       /\ fetchers' = [fetchers EXCEPT ![t].pc = "done"]
                 /\ UNCHANGED newsapi_rate_limited
    /\ UNCHANGED << request, has_excluded, selected_sources, attempt,
                    valid_articles, accepted_in, rank_path, select_path,
                    ranked_articles, stored_articles, response, api_answered,
                    config, pc, llm_tried, llm_statuses, client_vars, json_vars,
                    call, returned >>

SpecCache == InitCache /\ [][NextCache]_vars

\* C32: when every concurrent request has persisted the identifier it
\* discovered, the file holds the mapping of each of them, and a successful
\* write never drops a mapping the file held.
C32_NoPersistedMappingLost ==
    [][/\ (\A t \in DOMAIN fetchers' : fetchers'[t].persisted) =>
             /\ source_cache_file'.state = "json"
             /\ \A t \in DOMAIN fetchers' :
                   /\ fetchers'[t].name \in DOMAIN source_cache_file'.map
                   /\ source_cache_file'.map[fetchers'[t].name]
                         = DiscoveredId(fetchers'[t].name)
       /\ (source_cache_file.state = "json" /\ source_cache_file'.state = "json") =>
             \A k \in DOMAIN source_cache_file.map :
                /\ k \in DOMAIN source_cache_file'.map
                /\ source_cache_file'.map[k] = source_cache_file.map[k]]_vars

\* two requests have persisted different identifiers on top of an older file
C32_TwoMappingsPersisted ==
    /\ \A t \in DOMAIN fetchers : fetchers[t].kind = "legacy" /\ fetchers[t].persisted
    /\ \E t, u \in DOMAIN fetchers : fetchers[t].name # fetchers[u].name
    /\ source_cache_file.state = "json"
    /\ DOMAIN source_cache_file.map = {"n0", "n1", "n2"}

\* C31 as stated: a failure while fetching one topic or one source (the
\* request raises, the answer is not 200, the feed is malformed) does not
\* keep the other topics and sources of the call from being fetched: every
\* topic gets its request to the search API, and every RSS fetch of the
\* call requests every feed.
C31_FailureLeavesOthersFetched ==
    (/\ call.fn = "fetch_articles"
     /\ returned.fn = call.fn
     /\ returned.pipeline = "global")
        => /\ Len(returned.answered) >= Len(call.topics)
           /\ \A c \in DOMAIN returned.rss_calls :
                 \A name \in DOMAIN call.feeds :
                    returned.rss_calls[c].fetches[name] >= 1

\* C34 as stated: a call of fetch_articles with a sources list and without
\* a mode argument takes the legacy pipeline and queries the sources given.
C34_SourcesWithoutModeIsLegacy ==
    (/\ call.fn = "fetch_articles"
     /\ returned.fn = call.fn
     /\ call.sources.given
     /\ call.mode = "omitted")
        => /\ returned.pipeline = "legacy"
           /\ returned.queried = call.sources.list

============================================================================
